---- MODULE Spec2Model ----
(***************************************************************************)
(* Job pipeline of the content generator: one Topic, its Lesson rows, the  *)
(* generated files, and the request handlers / background passes that run  *)
(* on the single-threaded event loop.  One action is one run-to-completion *)
(* block of JavaScript: the code between two points where the event loop   *)
(* can take another macrotask (an awaited completion-service call, or a    *)
(* setImmediate callback).                                                 *)
(***************************************************************************)
EXTENDS Integers, Sequences, FiniteSets, TLC

\* ---------------------------------------------------------------- bounds
MaxLessons == 2          \* longest lessons array a breakdown response carries
MaxTasks == 2            \* request handlers / background passes alive at once
MaxTopics == 2           \* topics that event streams are opened for
MaxCalls == 3            \* stream openings, publishes and heartbeats of one run
MaxRetriesOption == 7    \* largest options.maxRetries a callOpenAI call is given
MaxGenerations == 3      \* generate requests accepted for the standalone lesson
MaxTextLen == 3          \* longest text countWords is applied to, the example apart
MaxPieces == 3           \* most pieces (placeholders, words) a template is made of
refetchInterval == 3000
maxReconnectAttempts == 5
reconnectInterval == 3000

\* ------------------------------------------------------ program constants
MAX_LESSON_RETRIES == 3
maxRetries == 2          \* expansion attempts of generateLessonContent / generatePodcastSummary
lessonMinWords == 2700
lessonMaxWords == 3300
podcastMinWords == 1000
podcastMaxWords == 1200
defaultMaxRetries == 3   \* callOpenAI: maxRetries = 3
baseDelay == 1000        \* calculateBackoff: baseDelay (ms)
maxDelay == 60000        \* calculateBackoff: maxDelay (ms)
jitterPercent == 25      \* calculateBackoff: Math.random() * 0.25
defaultRetryAfter == 60  \* callOpenAI: headers['retry-after'] || '60' (s)
defaultTimeout == 120000 \* callOpenAI: timeout = 120000 (ms)

\* Word counts of the completion-service responses the pipeline is run on
LessonWordCounts == {3000}
PodcastWordCounts == {1100}

VARIABLES
    apiKeyConfigured,    \* isApiKeyConfigured(): fixed by the environment
    topic,               \* the topics row
    lessons,             \* the lessons rows of the topic, indexed by id, ORDER BY lesson_number
    files,               \* generated-content/<slug>/: set of [path, words]
    tasks,               \* per slot: a request handler or background pass and its locals
    published,           \* the events the last step handed to sseManager.sendToTopic, in order
    \* --- SSEManager
    connections,         \* the connections Map, in insertion order: <<[id, topicId], ...>>
    broken,              \* ids of the connections whose res.write throws
    received,            \* per connection id: the messages written to its response
    statusOf,            \* per topic id: the persisted topic status, "absent" once deleted
    calls,               \* stream openings, publishes and heartbeats so far
    failedWrites,        \* the connection ids the last call caught a failed write for
    threw,               \* the last call let an exception reach its caller
    \* --- content source adapter
    adapter,             \* one callOpenAI call: its options, loop counter and outcome
    \* --- word-count gate
    gate,                \* one generateLessonContent / generatePodcastSummary call
    \* --- standalone lessons
    standalone,          \* the standalone_lessons row and the generations started for it
    \* --- HTTP
    refused,             \* the last request a route handler answered with an error status
    \* --- frontend
    page,                \* the TopicDetail page, its useSSE hook, and the API it talks to
    \* --- text helpers
    fn                   \* one application of countWords / replaceTemplateVariables

pipelineVars == <<apiKeyConfigured, topic, lessons, files, tasks, published>>
sseVars == <<connections, broken, received, statusOf, calls, failedWrites, threw>>
vars == <<pipelineVars, sseVars, adapter, gate, standalone, refused, page, fn>>

Slots == 1..MaxTasks

\* ------------------------------------------------------------- values
NULL == [kind |-> "null"]
Message(s) == [kind |-> "message", text |-> s]
\* `${failed} lesson(s) failed to generate. ${completed}/${total} completed.`
RatioMessage(f, c, n) == [kind |-> "ratio", failed |-> f, completed |-> c, total |-> n]

LessonFile(n) == [kind |-> "lesson", number |-> n]      \* <slug>/lesson-NN.md
PodcastFile(n) == [kind |-> "podcast", number |-> n]    \* <slug>/lesson-NN-podcast.md

\* INSERT INTO lessons (...) VALUES (?, ?, ?, ?, 'pending', 0); other columns take the schema defaults
NewLesson(id, number) ==
    [id |-> id, lesson_number |-> number, status |-> "pending", retry_count |-> 0,
     file_path |-> NULL, word_count |-> 0,
     podcast_file_path |-> NULL, podcast_word_count |-> 0, last_error |-> NULL]

\* INSERT INTO topics (title, slug, status) VALUES (?, ?, 'pending')
NewTopic ==
    [exists |-> TRUE, status |-> "pending", last_error |-> NULL,
     lesson_count |-> 0, description |-> NULL]

\* the row after DELETE FROM topics WHERE id = ?
DeletedTopic == [NewTopic EXCEPT !.exists = FALSE]

IdleTask ==
    [pc |-> "idle", kind |-> "none", lessons |-> <<>>, i |-> 0,
     failedCount |-> 0, lessonContent |-> 0,
     selected |-> <<>>, started |-> <<>>, responded |-> FALSE]

\* ------------------------------------------------------------- helpers
\* UPDATE topics SET status = ?, last_error = ? WHERE id = ?  (no row, no effect)
UpdateTopicStatus(tp, st, err) ==
    IF tp.exists THEN [tp EXCEPT !.status = st, !.last_error = err] ELSE tp

WriteFile(fs, path, words) ==
    {f \in fs : f.path # path} \cup {[path |-> path, words |-> words]}

\* The columns of a row that a pass reads from its copy of it
Snapshot(row) ==
    [id |-> row.id, lesson_number |-> row.lesson_number, status |-> row.status,
     retry_count |-> row.retry_count, file_path |-> row.file_path]

Snapshots(rows) == [k \in DOMAIN rows |-> Snapshot(rows[k])]

Ids(rows) == [k \in DOMAIN rows |-> rows[k].id]

\* SELECT * FROM lessons WHERE topic_id = ? ORDER BY lesson_number: rows with the same
\* number come in rowid order, the order SQLite's scan meets them in
OrderByLessonNumber(db) ==
    LET Before(a, b) ==
            \/ a.lesson_number < b.lesson_number
            \/ a.lesson_number = b.lesson_number /\ a.id < b.id
        Rank(k) == Cardinality({j \in DOMAIN db : Before(db[j], db[k])}) + 1
    IN [r \in DOMAIN db |-> db[CHOOSE k \in DOMAIN db : Rank(k) = r]]

\* ------------------------------------------------- progress events
\* What a status query would read at the moment an event is published
Seen(tp, db, id) ==
    [topic |-> IF tp.exists
               THEN [status |-> tp.status, last_error |-> tp.last_error,
                     lesson_count |-> tp.lesson_count]
               ELSE NULL,
     rows |-> Len(db),
     lesson |-> IF id \in DOMAIN db THEN db[id] ELSE NULL]

\* createSSEProgressCallbacks: one sseManager.sendToTopic(topicId, {type, data});
\* lessonNumber, step, count (lessonCount / wordCount / totalLessons) and error are the
\* data fields, 0 / "none" / NULL where the event type has none
SSEEvent(type, lessonNumber, step, count, error, seen) ==
    [type |-> type, lessonNumber |-> lessonNumber, step |-> step, count |-> count,
     error |-> error, seen |-> seen]

\* onLessonStart, called after the UPDATE that marks the lesson generating
LessonStart(snap, step, tp, db) ==
    SSEEvent("lesson_start", snap.lesson_number, step, 0, NULL, Seen(tp, db, snap.id))

\* onLessonError: step = lesson.file_path ? 'podcast' : 'content', from the pass's copy
LessonError(snap, err, tp, db) ==
    SSEEvent("lesson_error", snap.lesson_number,
             IF snap.file_path # NULL THEN "podcast" ELSE "content", 0, err,
             Seen(tp, db, snap.id))

\* ------------------------------------------------- generator: selections
\* mutant of AtRetryLimit: the comparison is > instead of >=
AtRetryLimit_OffByOne(lesson) == lesson.retry_count > MAX_LESSON_RETRIES

\* generateAllContent: "Check if lesson has exceeded retry limit"
AtRetryLimit(lesson) == lesson.retry_count >= MAX_LESSON_RETRIES

\* generateAllContent: the lessons of the snapshot the loop does not `continue` over
GenerateAllAttempts(lesson) == lesson.status # "completed" /\ ~AtRetryLimit(lesson)

\* generateAllContent: the `failedCount++` of a skipped lesson
SkippedAsFailed(lesson) == lesson.status # "completed" /\ AtRetryLimit(lesson)

\* WHERE status IN ('failed', 'pending') AND retry_count < ?
Retryable(lesson) ==
    lesson.status \in {"failed", "pending"} /\ lesson.retry_count < MAX_LESSON_RETRIES

\* mutant of RetrySelection: the query lacks the retry_count condition
RetrySelection_NoCeiling(db) ==
    SelectSeq(OrderByLessonNumber(db), LAMBDA l : l.status \in {"failed", "pending"})

\* retryFailedLessons: SELECT * FROM lessons WHERE ... ORDER BY lesson_number
RetrySelection(db) == SelectSeq(OrderByLessonNumber(db), Retryable)

\* ------------------------------------------------- generator: row updates
\* generateSingleLesson: UPDATE lessons SET status = 'generating', last_error = NULL
MarkGenerating(row) == [row EXCEPT !.status = "generating", !.last_error = NULL]

\* mutant of SaveContent: the body update already sets status = 'completed'
SaveContent_Completes(row, words) ==
    [row EXCEPT !.file_path = LessonFile(row.lesson_number), !.word_count = words,
                !.status = "completed"]

\* generateSingleLesson: UPDATE lessons SET file_path = ?, word_count = ?
SaveContent(row, words) ==
    [row EXCEPT !.file_path = LessonFile(row.lesson_number), !.word_count = words]

\* generateSingleLesson: UPDATE lessons SET podcast_file_path = ?, podcast_word_count = ?,
\*                        status = 'completed', last_error = NULL
SavePodcast(row, words) ==
    [row EXCEPT !.podcast_file_path = PodcastFile(row.lesson_number),
                !.podcast_word_count = words,
                !.status = "completed", !.last_error = NULL]

\* generateSingleLesson, catch: currentRetryCount = (lesson.retry_count || 0) + 1 is
\* computed from the pass's own copy of the row, then
\* UPDATE lessons SET status = 'failed', last_error = ?, retry_count = ?
MarkFailed(row, snapshot, err) ==
    [row EXCEPT !.status = "failed", !.last_error = err,
                !.retry_count = snapshot.retry_count + 1]

\* the four UPDATE lessons ... WHERE id = ? statements (no row, no effect)
MarkGeneratingWhere(db, id) ==
    [k \in DOMAIN db |-> IF db[k].id = id THEN MarkGenerating(db[k]) ELSE db[k]]
SaveContentWhere(db, id, words) ==
    [k \in DOMAIN db |-> IF db[k].id = id THEN SaveContent(db[k], words) ELSE db[k]]
SavePodcastWhere(db, id, words) ==
    [k \in DOMAIN db |-> IF db[k].id = id THEN SavePodcast(db[k], words) ELSE db[k]]
MarkFailedWhere(db, snapshot, err) ==
    [k \in DOMAIN db |-> IF db[k].id = snapshot.id
                         THEN MarkFailed(db[k], snapshot, err) ELSE db[k]]

\* ------------------------------------------------- generator: final status
CompletedCount(db) == Cardinality({k \in DOMAIN db : db[k].status = "completed"})
FailedCount(db) == Cardinality({k \in DOMAIN db : db[k].status = "failed"})

AllCompleted(completedCount, total) == completedCount = total

\* mutant of FinalTopic: the pass trusts its own failure counter instead of re-reading
\* the lessons
FinalTopic_ByFailureCounter(tp, db, kind, failedCount) ==
    IF failedCount = 0
    THEN UpdateTopicStatus(tp, "completed", NULL)
    ELSE UpdateTopicStatus(tp, "failed",
            RatioMessage(failedCount, CompletedCount(db), Len(db)))

\* generateAllContent / retryFailedLessons, "Check final status"
FinalTopic(tp, db, kind, failedCount) ==
    IF AllCompleted(CompletedCount(db), Len(db))
    THEN UpdateTopicStatus(tp, "completed", NULL)
    ELSE UpdateTopicStatus(tp, "failed",
            RatioMessage(IF kind = "retry" THEN FailedCount(db) ELSE failedCount,
                         CompletedCount(db), Len(db)))

\* onGenerationComplete(lessons.length | finalLessons.length) / onGenerationError(errorMsg),
\* called after the UPDATE topics of the final status; tp is the topic after it
FinalEvent(tp, db, kind, failedCount, total) ==
    IF AllCompleted(CompletedCount(db), Len(db))
    THEN SSEEvent("generation_complete", 0, "none",
                  IF kind = "retry" THEN Len(db) ELSE total, NULL, Seen(tp, db, 0))
    ELSE SSEEvent("generation_error", 0, "none", 0,
                  RatioMessage(IF kind = "retry" THEN FailedCount(db) ELSE failedCount,
                               CompletedCount(db), Len(db)),
                  Seen(tp, db, 0))

\* ------------------------------------------------- generator: the lesson loop
\* Position in the pass's list of the next lesson generateSingleLesson is called for,
\* Len + 1 when the loop is over.  retryFailedLessons attempts every selected row.
NextAttempt(tk, from) ==
    LET cand == {j \in from..Len(tk.lessons) :
                    tk.kind = "retry" \/ GenerateAllAttempts(tk.lessons[j])}
    IN IF cand = {} THEN Len(tk.lessons) + 1
       ELSE CHOOSE j \in cand : \A k \in cand : j <= k

\* The pass resumes its for-loop after position tk.i: it skips, then either enters
\* generateSingleLesson for the next lesson (up to the first await) or leaves the
\* loop and writes the topic's final status.
Continue(tk, db, tp) ==
    LET nxt == NextAttempt(tk, tk.i + 1)
        skipped == Cardinality({j \in (tk.i + 1)..(nxt - 1) :
                        tk.kind = "generate" /\ SkippedAsFailed(tk.lessons[j])})
        fc == tk.failedCount + skipped
    IN IF nxt <= Len(tk.lessons)
       THEN [lessons |-> MarkGeneratingWhere(db, tk.lessons[nxt].id),
             topic |-> tp,
             task |-> [tk EXCEPT !.pc = "content", !.i = nxt, !.failedCount = fc,
                                 !.lessonContent = 0,
                                 !.started = Append(@, tk.lessons[nxt].id)],
             events |-> <<LessonStart(tk.lessons[nxt], "content", tp,
                                      MarkGeneratingWhere(db, tk.lessons[nxt].id))>>]
       ELSE [lessons |-> db,
             topic |-> FinalTopic(tp, db, tk.kind, fc),
             task |-> IdleTask,
             events |-> <<FinalEvent(FinalTopic(tp, db, tk.kind, fc), db, tk.kind, fc,
                                     Len(tk.lessons))>>]

\* mutant of FailLesson: the catch publishes no lesson_error
FailLesson_NoEvent(tk, db, tp, err) ==
    Continue([tk EXCEPT !.failedCount = @ + 1],
             MarkFailedWhere(db, tk.lessons[tk.i], err), tp)

\* generateSingleLesson's catch block, then the loop goes on
FailLesson(tk, db, tp, err) ==
    LET snap == tk.lessons[tk.i]
        db1 == MarkFailedWhere(db, snap, err)
        r == Continue([tk EXCEPT !.failedCount = @ + 1], db1, tp)
    IN [r EXCEPT !.events = <<LessonError(snap, err, tp, db1)>> \o @]

\* ------------------------------------------------- word-count gate
\* The for-loop of generateLessonContent / generatePodcastSummary from `attempt` on;
\* rs[k] is the word count of the k-th completion-service response of the attempt.
RECURSIVE ExpansionLoop(_, _, _, _)
ExpansionLoop(rs, attempt, words, minWords) ==
    IF attempt > maxRetries
    THEN [words |-> words, expansions |-> attempt - 1]
    ELSE LET expanded == rs[attempt + 1]
         IN IF expanded >= minWords
            THEN [words |-> expanded, expansions |-> attempt]
            ELSE ExpansionLoop(rs, attempt + 1, expanded, minWords)

\* generateLessonContent / generatePodcastSummary: the accepted word count and the
\* number of expandContent calls made
WordCountGate(rs, minWords, maxWords) ==
    IF rs[1] >= minWords /\ rs[1] <= maxWords THEN [words |-> rs[1], expansions |-> 0]
    ELSE IF rs[1] < minWords THEN ExpansionLoop(rs, 1, rs[1], minWords)
    ELSE [words |-> rs[1], expansions |-> 0]

Responses(counts) == [1..(maxRetries + 1) -> counts]

\* the word counts generateLessonContent / generatePodcastSummary can return
GateResults(counts, minWords, maxWords) ==
    {WordCountGate(rs, minWords, maxWords).words : rs \in Responses(counts)}

\* ------------------------------------------------- state
FreeSlots == {t \in Slots : tasks[t].pc = "idle"}
\* slots are interchangeable: a new handler takes the lowest free one
FreeSlot(t) == t \in FreeSlots /\ \A u \in FreeSlots : t <= u

Apply(t, r, fs) ==
    /\ lessons' = r.lessons
    /\ topic' = r.topic
    /\ tasks' = [tasks EXCEPT ![t] = r.task]
    /\ files' = fs
    /\ published' = r.events

\* new SSEManager(), and the topics rows as POST /api/topics inserts them
NoStreams ==
    /\ connections = <<>>
    /\ broken = {}
    /\ received = [c \in 1..MaxCalls |-> <<>>]
    /\ statusOf = [id \in 1..MaxTopics |-> "pending"]
    /\ calls = 0
    /\ failedWrites = {}
    /\ threw = FALSE

\* no callOpenAI call is running; keySet: process.env.OPENAI_API_KEY is set
IdleAdapter(keySet) ==
    [pc |-> "idle", keySet |-> keySet, maxRetries |-> 0, attempt |-> 0,
     requests |-> 0, retries |-> 0, lastError |-> NULL, result |-> NULL,
     lastRetry |-> NULL]

\* no generateLessonContent / generatePodcastSummary call is running
IdleGate ==
    [pc |-> "idle", kind |-> "none", firstPass |-> 0, wordCount |-> 0, attempt |-> 0,
     expansions |-> 0, call |-> IdleAdapter(TRUE), deadline |-> NULL, error |-> NULL]

\* no standalone_lessons row yet
NoStandalone ==
    [id |-> 0, exists |-> FALSE, status |-> "pending", file_path |-> NULL,
     podcast_file_path |-> NULL, last_error |-> NULL, pc |-> "idle", started |-> 0]

\* nothing outside the topic pipeline, the manager and the adapter has happened
\* setTimeout(() => controller.abort(), timeout)
Milliseconds(n) == [kind |-> "ms", value |-> n]

\* the page before it is opened, and the topic as the API serves it: not broken down
\* yet
ClosedPage ==
    [mounted |-> FALSE, topic |-> NULL, statusData |-> NULL, refetching |-> FALSE,
     isConnected |-> FALSE, isConnecting |-> FALSE, reconnectAttempts |-> 0,
     source |-> "none", greeted |-> FALSE, reconnectTimer |-> NULL, polling |-> NULL,
     api |-> [status |-> "pending", lessons |-> <<>>, step |-> "idle"]]

NoApplication == [op |-> "none"]

NoRuns ==
    /\ gate = IdleGate
    /\ standalone = NoStandalone
    /\ refused = NULL
    /\ page = ClosedPage
    /\ fn = NoApplication

NewPipeline ==
    /\ topic = NewTopic
    /\ lessons = <<>>
    /\ files = {}
    /\ tasks = [t \in Slots |-> IdleTask]
    /\ published = <<>>

Init ==
    /\ apiKeyConfigured \in BOOLEAN
    /\ NewPipeline
    /\ NoStreams
    /\ NoRuns
    /\ adapter = IdleAdapter(TRUE)

\* ------------------------------------------------- request handlers
\* res.status(status).json({ error })
Refusal(status, error) == [status |-> status, error |-> error]

ConfigurationError ==
    Refusal(400, "OpenAI API key is not configured. Please add it to your .env file.")

\* mutant of GenerateRefusal: the handler does not look at the credential
GenerateRefusal_NoCredentialCheck ==
    IF ~topic.exists THEN Refusal(404, "Topic not found")
    ELSE IF topic.status = "generating"
    THEN Refusal(400, "Generation already in progress")
    ELSE IF topic.status = "completed"
    THEN Refusal(400, "Content already generated. Delete and recreate the topic to regenerate.")
    ELSE NULL

\* POST /api/topics/:id/generate: the checks before any work, in the order the handler
\* makes them; NULL when the request passes them all
GenerateRefusal ==
    IF ~apiKeyConfigured THEN ConfigurationError
    ELSE IF ~topic.exists THEN Refusal(404, "Topic not found")
    ELSE IF topic.status = "generating"
    THEN Refusal(400, "Generation already in progress")
    ELSE IF topic.status = "completed"
    THEN Refusal(400, "Content already generated. Delete and recreate the topic to regenerate.")
    ELSE NULL

\* POST /api/topics/:id/generate: the checks that answer 400 / 404 before any work
GenerateAccepted == GenerateRefusal = NULL

\* mutant of NeedsBreakdown: the handler breaks the topic down on every request
NeedsBreakdown_Always(count) == TRUE

\* if (existingLessons.count === 0)
NeedsBreakdown(count) == count = 0

\* POST /api/topics/:id/generate, up to the await inside breakdownTopic or, when the
\* lessons exist, up to setImmediate
RequestGenerate(t) ==
    /\ FreeSlot(t)
    /\ GenerateAccepted
    /\ IF NeedsBreakdown(Len(lessons))
       THEN \* breakdownTopic: UPDATE topics SET status = 'generating', last_error = NULL,
            \* onBreakdownStart, await callOpenAI; the response is not sent yet
            /\ topic' = UpdateTopicStatus(topic, "generating", NULL)
            /\ tasks' = [tasks EXCEPT ![t] =
                            [IdleTask EXCEPT !.pc = "breakdown", !.kind = "generate"]]
            /\ published' = <<SSEEvent("breakdown_start", 0, "none", 0, NULL,
                                       Seen(topic', lessons, 0))>>
       ELSE \* res.json(...), setImmediate
            /\ topic' = topic
            /\ tasks' = [tasks EXCEPT ![t] =
                            [IdleTask EXCEPT !.pc = "scheduled", !.kind = "generate",
                                             !.responded = TRUE]]
            /\ published' = <<>>
    /\ UNCHANGED <<sseVars, adapter, gate, standalone, refused, page, fn, apiKeyConfigured, lessons, files>>

BreakdownErrors ==
    {"openai error", "Failed to parse JSON response from OpenAI",
     "Invalid response: missing lessons array"}

\* what the try block of breakdownTopic is handed: callOpenAI throws, parseJsonResponse
\* throws, or the parsed object; `lessons` is NULL when the object has no lessons array
\* and else the array, as the `number` of each entry in order
Array(items) == [kind |-> "array", items |-> items]
Thrown == [kind |-> "thrown", lessons |-> NULL]
Unparseable == [kind |-> "unparseable", lessons |-> NULL]
Breakdown(ls) == [kind |-> "breakdown", lessons |-> ls]

\* the entries numbered 1, 2, ..., as the topic_breakdown prompt asks for them
Numbered(n) == [k \in 1..n |-> k]
WellNumbered == {Breakdown(Array(Numbered(n))) : n \in 0..MaxLessons}
\* every entry carries "number": 1, as the one entry of the prompt's example does
SameNumbered == {Breakdown(Array([k \in 1..n |-> 1])) : n \in 0..MaxLessons}
\* a response that numbers its entries from 0 (the shorter ones: the numbering of
\* the first entry is what matters)
ZeroBased == {Breakdown(Array([k \in 1..n |-> k - 1])) : n \in 1..MaxLessons - 1}
Rejected == {Thrown, Unparseable, Breakdown(NULL)}

\* mutant of AcceptedLessons: a missing lessons array is taken as an empty one
AcceptedLessons_MissingIsEmpty(breakdown) ==
    IF breakdown.lessons = NULL THEN Array(<<>>) ELSE breakdown.lessons

\* if (!breakdown.lessons || !Array.isArray(breakdown.lessons)) throw ...: the array
\* the code goes on with, NULL when it throws
AcceptedLessons(breakdown) == breakdown.lessons

\* the message of the exception the try block ends in, NULL when it goes through
BreakdownError(response) ==
    CASE response.kind = "thrown" -> Message("openai error")
      [] response.kind = "unparseable" ->
            Message("Failed to parse JSON response from OpenAI")
      [] OTHER -> IF AcceptedLessons(response) = NULL
                  THEN Message("Invalid response: missing lessons array")
                  ELSE NULL

\* mutant of RecordBreakdownFailure: the catch block only rethrows
RecordBreakdownFailure_Rethrow(tp, err) == tp

\* breakdownTopic catch: UPDATE topics SET status = 'failed', last_error = ?
RecordBreakdownFailure(tp, err) == UpdateTopicStatus(tp, "failed", err)

\* breakdownTopic after its callOpenAI settles, and the rest of the generate handler
BreakdownStep(t, response) ==
    /\ tasks[t].pc = "breakdown"
    /\ IF BreakdownError(response) # NULL
       THEN \* catch: UPDATE topics, onGenerationError; rethrown, the handler answers 500
            /\ topic' = RecordBreakdownFailure(topic, BreakdownError(response))
            /\ tasks' = [tasks EXCEPT ![t] = IdleTask]
            /\ published' = <<SSEEvent("generation_error", 0, "none", 0,
                                       BreakdownError(response),
                                       Seen(topic', lessons, 0))>>
            /\ UNCHANGED lessons
       ELSE LET entries == AcceptedLessons(response).items
                n == Len(entries)
            IN IF topic.exists
               THEN \* UPDATE topics SET description, lesson_count; one INSERT per entry;
                    \* the handler responds and calls setImmediate
                    /\ topic' = [topic EXCEPT !.description = Message("description"),
                                              !.lesson_count = n]
                    /\ lessons' = lessons \o
                           [k \in 1..n |-> NewLesson(Len(lessons) + k, entries[k])]
                    /\ tasks' = [tasks EXCEPT ![t] =
                                   [IdleTask EXCEPT !.pc = "scheduled", !.kind = "generate",
                                                    !.responded = TRUE]]
                    /\ published' = <<SSEEvent("breakdown_complete", 0, "none", n, NULL,
                                               Seen(topic', lessons', 0))>>
               ELSE \* the topic row is gone: the first INSERT violates the foreign key
                    \* (catch: onGenerationError), or (n = 0) onBreakdownComplete(0) and
                    \* getGenerationStatus throws 'Topic not found' in the handler;
                    \* either way the handler answers 500 and schedules nothing
                    /\ tasks' = [tasks EXCEPT ![t] = IdleTask]
                    /\ published' =
                           IF n = 0
                           THEN <<SSEEvent("breakdown_complete", 0, "none", 0, NULL,
                                           Seen(topic, lessons, 0))>>
                           ELSE <<SSEEvent("generation_error", 0, "none", 0,
                                           Message("FOREIGN KEY constraint failed"),
                                           Seen(topic, lessons, 0))>>
                    /\ UNCHANGED <<topic, lessons>>
    /\ UNCHANGED <<sseVars, adapter, gate, standalone, refused, page, fn, apiKeyConfigured, files>>

\* the completion service numbers the lessons 1, 2, ...
BreakdownReturn(t) == \E response \in Rejected \cup WellNumbered : BreakdownStep(t, response)

\* the completion service gives every lesson the same number
BreakdownReturnSameNumbered(t) ==
    \E response \in Rejected \cup SameNumbered : BreakdownStep(t, response)

BreakdownReturnZeroBased(t) ==
    \E response \in ZeroBased : BreakdownStep(t, response)

\* POST /:id/retry: SELECT COUNT(*) ... WHERE status IN ('failed', 'pending')
\*                                       AND (retry_count < 3 OR retry_count IS NULL)
RetryableCount(db) ==
    Cardinality({k \in DOMAIN db : /\ db[k].status \in {"failed", "pending"}
                                   /\ db[k].retry_count < 3})

\* POST /api/topics/:id/retry: the checks before any work, in the order the handler makes
\* them; NULL when the request passes them all
RetryRefusal ==
    IF ~apiKeyConfigured THEN ConfigurationError
    ELSE IF ~topic.exists THEN Refusal(404, "Topic not found")
    ELSE IF topic.status = "generating"
    THEN Refusal(400, "Generation already in progress")
    ELSE IF RetryableCount(lessons) = 0
    THEN Refusal(400, "No lessons available to retry. All lessons either completed or exceeded retry limit.")
    ELSE NULL

\* POST /api/topics/:id/retry: the checks that answer 400 / 404 before any work
RetryAccepted == RetryRefusal = NULL

\* POST /api/topics/:id/retry, up to setImmediate
RequestRetry(t) ==
    /\ FreeSlot(t)
    /\ RetryAccepted
    /\ tasks' = [tasks EXCEPT ![t] =
                    [IdleTask EXCEPT !.pc = "scheduled", !.kind = "retry",
                                     !.responded = TRUE]]
    /\ published' = <<>>
    /\ UNCHANGED <<sseVars, adapter, gate, standalone, refused, page, fn, apiKeyConfigured, topic, lessons, files>>

\* The process stops while a handler or pass is alive and is started again: the
\* database and the files stay, every handler, pass and timer is gone.  index.ts and
\* db/index.ts run the schema and the migrations at start and touch no status column.
Restart ==
    /\ \E t \in Slots : tasks[t].pc # "idle"
    /\ tasks' = [t \in Slots |-> IdleTask]
    /\ published' = <<>>
    /\ UNCHANGED <<sseVars, adapter, gate, standalone, refused, page, fn, apiKeyConfigured, topic, lessons, files>>

\* DELETE /api/topics/:id
DeleteTopic ==
    /\ topic.exists
    /\ topic' = DeletedTopic
    /\ lessons' = <<>>
    /\ published' = <<>>
    /\ UNCHANGED <<sseVars, adapter, gate, standalone, refused, page, fn, apiKeyConfigured, files, tasks>>

\* ------------------------------------------------- background passes
\* the setImmediate callback: generateAllContent up to its first await.  Nothing in
\* its try block throws (generateSingleLesson catches every exception of an attempt),
\* so its catch block is never entered.
StartGenerateAll(t) ==
    /\ tasks[t].pc = "scheduled"
    /\ tasks[t].kind = "generate"
    /\ IF ~topic.exists \/ Len(lessons) = 0
       THEN \* throws 'Topic not found' / 'No lessons found. Run topic breakdown first.'
            /\ tasks' = [tasks EXCEPT ![t] = IdleTask]
            /\ published' = <<>>
            /\ UNCHANGED <<topic, lessons, files>>
       ELSE Apply(t, Continue([tasks[t] EXCEPT !.lessons = Snapshots(OrderByLessonNumber(lessons)),
                                               !.selected = Ids(OrderByLessonNumber(lessons))],
                              lessons, topic), files)
    /\ UNCHANGED <<sseVars, adapter, gate, standalone, refused, page, fn, apiKeyConfigured>>

\* the setImmediate callback: retryFailedLessons up to its first await
StartRetry(t) ==
    /\ tasks[t].pc = "scheduled"
    /\ tasks[t].kind = "retry"
    /\ IF ~topic.exists \/ Len(RetrySelection(lessons)) = 0
       THEN \* throws 'Topic not found' / returns { retried: 0, ... }
            /\ tasks' = [tasks EXCEPT ![t] = IdleTask]
            /\ published' = <<>>
            /\ UNCHANGED <<topic, lessons, files>>
       ELSE Apply(t, Continue([tasks[t] EXCEPT !.lessons = Snapshots(RetrySelection(lessons)),
                                               !.selected = Ids(RetrySelection(lessons))],
                              lessons, UpdateTopicStatus(topic, "generating", NULL)), files)
    /\ UNCHANGED <<sseVars, adapter, gate, standalone, refused, page, fn, apiKeyConfigured>>

\* A completion-service call of the running lesson attempt throws (callOpenAI after
\* its own retries, or expandContent): generateSingleLesson's catch
CallFails(t) ==
    /\ tasks[t].pc \in {"content", "podcast"}
    /\ Apply(t, FailLesson(tasks[t], lessons, topic, Message("openai error")), files)
    /\ UNCHANGED <<sseVars, adapter, gate, standalone, refused, page, fn, apiKeyConfigured>>

\* generateLessonContent returns: between its first call and its return it awaits up
\* to maxRetries expansions and touches neither the database nor the files.  Then
\* fs.writeFileSync, UPDATE lessons, and generatePodcastSummary up to its first await.
ContentReturn(t) ==
    /\ tasks[t].pc = "content"
    /\ LET tk == tasks[t]
           snap == tk.lessons[tk.i]
       IN \/ \E words \in GateResults(LessonWordCounts, lessonMinWords, lessonMaxWords) :
                  /\ files' = WriteFile(files, LessonFile(snap.lesson_number), words)
                  /\ lessons' = SaveContentWhere(lessons, snap.id, words)
                  /\ tasks' = [tasks EXCEPT ![t] = [tk EXCEPT !.pc = "podcast",
                                                              !.lessonContent = words]]
                  \* onLessonContentComplete, onLessonStart(..., 'podcast')
                  /\ published' =
                        <<SSEEvent("lesson_content_complete", snap.lesson_number, "none",
                                   words, NULL, Seen(topic, lessons', snap.id)),
                          LessonStart(snap, "podcast", topic, lessons')>>
                  /\ UNCHANGED topic
          \/ \* fs.writeFileSync throws
             Apply(t, FailLesson(tk, lessons, topic, Message("write failed")), files)
    /\ UNCHANGED <<sseVars, adapter, gate, standalone, refused, page, fn, apiKeyConfigured>>

\* generatePodcastSummary returns; fs.writeFileSync, UPDATE lessons ... 'completed',
\* and the pass's loop goes on to its next await or to the final status
PodcastReturn(t) ==
    /\ tasks[t].pc = "podcast"
    /\ LET tk == tasks[t]
           snap == tk.lessons[tk.i]
       IN \/ \E words \in GateResults(PodcastWordCounts, podcastMinWords, podcastMaxWords) :
                  LET db1 == SavePodcastWhere(lessons, snap.id, words)
                      r == Continue(tk, db1, topic)
                  IN \* onLessonPodcastComplete, onLessonComplete, then the loop goes on
                     Apply(t, [r EXCEPT !.events =
                                  <<SSEEvent("lesson_podcast_complete", snap.lesson_number,
                                             "none", words, NULL, Seen(topic, db1, snap.id)),
                                    SSEEvent("lesson_complete", snap.lesson_number,
                                             "none", 0, NULL, Seen(topic, db1, snap.id))>>
                                  \o @],
                           WriteFile(files, PodcastFile(snap.lesson_number), words))
          \/ \* fs.writeFileSync throws
             Apply(t, FailLesson(tk, lessons, topic, Message("write failed")), files)
    /\ UNCHANGED <<sseVars, adapter, gate, standalone, refused, page, fn, apiKeyConfigured>>

Next ==
    \/ \E t \in Slots : RequestGenerate(t)
    \/ \E t \in Slots : BreakdownReturn(t)
    \/ \E t \in Slots : RequestRetry(t)
    \/ DeleteTopic
    \/ \E t \in Slots : StartGenerateAll(t)
    \/ \E t \in Slots : StartRetry(t)
    \/ \E t \in Slots : CallFails(t)
    \/ \E t \in Slots : ContentReturn(t)
    \/ \E t \in Slots : PodcastReturn(t)

Spec == Init /\ [][Next]_vars

\* a step that does not wait for a request: a completion-service call returns or
\* fails, or a setImmediate callback runs
Background(t) ==
    \/ BreakdownReturn(t)
    \/ StartGenerateAll(t)
    \/ StartRetry(t)
    \/ CallFails(t)
    \/ ContentReturn(t)
    \/ PodcastReturn(t)

\* the same program while the process keeps running and every completion-service call
\* returns or fails
LiveSpec == Spec /\ \A t \in Slots : WF_vars(Background(t))

\* the same program with a completion service that does not number the lessons of a
\* breakdown 1, 2, ...
NumberingNext ==
    \/ \E t \in Slots : RequestGenerate(t)
    \/ \E t \in Slots : BreakdownReturnSameNumbered(t)
    \/ \E t \in Slots : BreakdownReturnZeroBased(t)
    \/ \E t \in Slots : RequestRetry(t)
    \/ DeleteTopic
    \/ \E t \in Slots : StartGenerateAll(t)
    \/ \E t \in Slots : StartRetry(t)
    \/ \E t \in Slots : CallFails(t)
    \/ \E t \in Slots : ContentReturn(t)
    \/ \E t \in Slots : PodcastReturn(t)

NumberingSpec == Init /\ [][NumberingNext]_vars

\* the same program on a host that can stop and restart it
NextOrRestart == Next \/ Restart
RestartSpec == Init /\ [][NextOrRestart]_vars

\* ------------------------------------------------- requests that are turned away
\* The database and the files as earlier runs of the program left them (a run can have
\* been stopped at any point), read by a process that is started without a credential.
PersistedRow(id, st, retries) ==
    LET row == [NewLesson(id, id) EXCEPT !.status = st, !.retry_count = retries]
    IN CASE st = "completed" -> SavePodcast(SaveContent(row, 3000), 1100)
         [] st = "failed" -> [row EXCEPT !.last_error = Message("openai error")]
         [] OTHER -> row

PersistedRows(id) ==
    {PersistedRow(id, "pending", 0), PersistedRow(id, "generating", 0),
     PersistedRow(id, "generating", 2), PersistedRow(id, "failed", 1),
     PersistedRow(id, "failed", MAX_LESSON_RETRIES), PersistedRow(id, "completed", 0),
     PersistedRow(id, "completed", 1)}

PersistedLessons ==
    UNION {{db \in [1..n -> UNION {PersistedRows(id) : id \in 1..n}] :
                \A id \in 1..n : db[id].id = id} : n \in 0..MaxLessons}

PersistedFiles(db) ==
    UNION {{[path |-> db[k].file_path, words |-> db[k].word_count],
            [path |-> db[k].podcast_file_path, words |-> db[k].podcast_word_count]} :
           k \in {j \in DOMAIN db : db[j].status = "completed"}}

\* the topics row that goes with the rows db
PersistedTopics(db) ==
    LET brokenDown == [NewTopic EXCEPT !.description = Message("description"),
                                       !.lesson_count = Len(db)]
        unfinished == \E k \in DOMAIN db : db[k].status \in {"pending", "generating"}
    IN IF Len(db) = 0
       THEN {NewTopic, [NewTopic EXCEPT !.status = "generating"],
             [NewTopic EXCEPT !.status = "failed", !.last_error = Message("openai error")]}
       ELSE {[brokenDown EXCEPT !.status = "generating"]}
            \cup (IF unfinished THEN {}
                  ELSE IF AllCompleted(CompletedCount(db), Len(db))
                  THEN {[brokenDown EXCEPT !.status = "completed"]}
                  ELSE {[brokenDown EXCEPT !.status = "failed",
                                           !.last_error = RatioMessage(FailedCount(db),
                                                                CompletedCount(db), Len(db))]})

NoCredentialInit ==
    /\ apiKeyConfigured = FALSE
    /\ lessons \in PersistedLessons
    /\ topic \in PersistedTopics(lessons)
    /\ files = PersistedFiles(lessons)
    /\ tasks = [t \in Slots |-> IdleTask]
    /\ published = <<>>
    /\ NoStreams
    /\ NoRuns
    /\ adapter = IdleAdapter(FALSE)

\* what a turned-away request leaves in the program: its answer
Refuse(route, refusal) ==
    /\ refused' = [route |-> route, status |-> refusal.status, error |-> refusal.error]
    /\ UNCHANGED <<pipelineVars, sseVars, adapter, gate, standalone, page, fn>>

\* POST /api/topics/:id/generate answered by one of its early returns
RefuseGenerate ==
    /\ GenerateRefusal # NULL
    /\ Refuse("generate", GenerateRefusal)

\* POST /api/topics/:id/retry answered by one of its early returns
RefuseRetry ==
    /\ RetryRefusal # NULL
    /\ Refuse("retry", RetryRefusal)

\* breakdownTopic called while no credential is configured: 'Topic not found' or the
\* configuration error is thrown before the UPDATE and before callOpenAI
BreakdownWithoutCredential ==
    /\ ~apiKeyConfigured
    /\ Refuse("breakdownTopic",
              IF ~topic.exists THEN Refusal(500, "Topic not found")
              ELSE Refusal(500, ConfigurationError.error))

NoCredentialNext ==
    \/ RefuseGenerate
    \/ RefuseRetry
    \/ BreakdownWithoutCredential
    \/ DeleteTopic

NoCredentialSpec == NoCredentialInit /\ [][NoCredentialNext]_vars

\* ------------------------------------------------- status query
\* lessons.find(l => l.status === 'generating') on the rows in ORDER BY lesson_number
CurrentLesson(ls) ==
    LET generating == {k \in DOMAIN ls : ls[k].status = "generating"}
    IN IF generating = {} THEN NULL
       ELSE ls[CHOOSE k \in generating : \A j \in generating : k <= j]

Number(n) == [kind |-> "number", value |-> n]

\* getGenerationStatus(topicId).progress; NULL for the 'Topic not found' exception
GetGenerationStatus(tp, db) ==
    LET ls == OrderByLessonNumber(db)
        completedLessons == Len(SelectSeq(ls, LAMBDA l : l.status = "completed"))
        failedLessons == Len(SelectSeq(ls, LAMBDA l : l.status = "failed"))
        currentLesson == CurrentLesson(ls)
        step == IF Len(ls) > 0
                THEN IF completedLessons = Len(ls) THEN "complete"
                     ELSE IF currentLesson # NULL
                     THEN IF currentLesson.file_path # NULL THEN "podcast" ELSE "content"
                     ELSE "content"
                ELSE "breakdown"
    IN IF ~tp.exists THEN NULL
       ELSE [total |-> Len(ls), completed |-> completedLessons, failed |-> failedLessons,
             \* currentLesson?.lesson_number || null
             current |-> IF currentLesson = NULL THEN NULL
                         ELSE IF currentLesson.lesson_number = 0 THEN NULL
                         ELSE Number(currentLesson.lesson_number),
             step |-> step]

\* ------------------------------------------------- standalone lessons
\* routes/standalone-lessons.ts on one row of standalone_lessons.  The service functions
\* behind the routes (createStandaloneLesson, deleteStandaloneLesson,
\* generateStandaloneLesson) are modelled from the specification: a StandaloneLesson
\* has the shape of a Lesson, and its generation marks it generating, writes the body,
\* then the companion script, and ends completed or failed.

\* POST /api/standalone-lessons
CreateStandaloneLesson ==
    /\ standalone.id = 0
    /\ standalone' = [standalone EXCEPT !.id = 1, !.exists = TRUE]
    /\ UNCHANGED <<pipelineVars, sseVars, adapter, gate, refused, page, fn>>

\* DELETE /api/standalone-lessons/:id
DeleteStandaloneLesson ==
    /\ standalone.exists
    /\ standalone' = [standalone EXCEPT !.exists = FALSE]
    /\ UNCHANGED <<pipelineVars, sseVars, adapter, gate, refused, page, fn>>

\* POST /api/standalone-lessons/:id/generate: the checks before generateStandaloneLesson
\* is called; NULL when the request passes them
StandaloneRefusal(lesson) ==
    IF ~lesson.exists THEN Refusal(404, "Standalone lesson not found")
    ELSE IF lesson.status = "generating"
    THEN Refusal(409, "Content generation already in progress")
    ELSE NULL

\* POST /api/standalone-lessons/:id/generate: an early return, or
\* generateStandaloneLesson(lessonId) up to its first await and the 200 answer
GenerateStandaloneLesson ==
    /\ standalone.id # 0
    /\ IF StandaloneRefusal(standalone) # NULL
       THEN /\ refused' = [route |-> "standalone generate",
                           status |-> StandaloneRefusal(standalone).status,
                           error |-> StandaloneRefusal(standalone).error]
            /\ UNCHANGED standalone
       ELSE /\ standalone.started < MaxGenerations
            /\ standalone' = [standalone EXCEPT !.status = "generating", !.pc = "content",
                                                !.last_error = NULL, !.started = @ + 1]
            /\ refused' = NULL
    /\ UNCHANGED <<pipelineVars, sseVars, adapter, gate, page, fn>>

\* UPDATE standalone_lessons ... WHERE id = ? (no row, no effect)
UpdateStandalone(lesson, row) ==
    IF lesson.exists
    THEN [row EXCEPT !.pc = lesson.pc]
    ELSE lesson

\* the body is generated: the file is written and its path recorded
StandaloneContentReturn ==
    /\ standalone.pc = "content"
    /\ standalone' = [UpdateStandalone(standalone,
                            [standalone EXCEPT !.file_path = LessonFile(1)])
                        EXCEPT !.pc = "podcast"]
    /\ UNCHANGED <<pipelineVars, sseVars, adapter, gate, refused, page, fn>>

\* the companion script is generated: the file is written and the row completed
StandalonePodcastReturn ==
    /\ standalone.pc = "podcast"
    /\ standalone' = [UpdateStandalone(standalone,
                            [standalone EXCEPT !.podcast_file_path = PodcastFile(1),
                                               !.status = "completed"])
                        EXCEPT !.pc = "idle"]
    /\ UNCHANGED <<pipelineVars, sseVars, adapter, gate, refused, page, fn>>

\* a completion-service call of the generation throws: the row is marked failed
StandaloneFails ==
    /\ standalone.pc \in {"content", "podcast"}
    /\ standalone' = [UpdateStandalone(standalone,
                            [standalone EXCEPT !.status = "failed",
                                               !.last_error = Message("openai error")])
                        EXCEPT !.pc = "idle"]
    /\ UNCHANGED <<pipelineVars, sseVars, adapter, gate, refused, page, fn>>

StandaloneInit ==
    /\ apiKeyConfigured = TRUE
    /\ NewPipeline
    /\ NoStreams
    /\ NoRuns
    /\ adapter = IdleAdapter(TRUE)

StandaloneNext ==
    \/ CreateStandaloneLesson
    \/ DeleteStandaloneLesson
    \/ GenerateStandaloneLesson
    \/ StandaloneContentReturn
    \/ StandalonePodcastReturn
    \/ StandaloneFails

StandaloneSpec == StandaloneInit /\ [][StandaloneNext]_vars

\* ------------------------------------------------- TopicDetail page
\* frontend/src/pages/TopicDetail.tsx and frontend/src/hooks/useSSE.ts, with the API as
\* the page meets it: a topic that is broken down into at most one lesson.  One action
\* is one browser task: an event handler, the render it causes and the effects of that
\* render.

\* topic?.status === 'generating': the hook's topicId and enabled, the query's enabled
Generating(p) == p.topic # NULL /\ p.topic.status = "generating"

\* useSSE cleanup(): the reconnect timer is cleared and the EventSource closed; the
\* connection state is left as it is
Cleanup(p) == [p EXCEPT !.reconnectTimer = NULL, !.source = "none", !.greeted = FALSE]

\* useSSE connect()
Connect(p) ==
    IF ~Generating(p) THEN p
    ELSE [Cleanup(p) EXCEPT !.isConnecting = TRUE, !.source = "connecting"]

\* the hook's lifecycle effect: handleSSEEvent depends on the topic object, connect on
\* handleSSEEvent, and the effect on connect, so every new topic object tears the
\* stream down and, while the topic is generating, opens a new one
ConnectionEffect(old, new) ==
    IF new.topic = old.topic THEN new
    ELSE IF Generating(new) THEN Connect(new)
    ELSE Cleanup(new)

\* statusData.lessons.some((l, i) => l.status !== topic?.lessons[i]?.status || ...)
SomeLessonDiffers(polled, shown) ==
    \E i \in DOMAIN polled.lessons :
        \/ shown = NULL
        \/ i \notin DOMAIN shown.lessons
        \/ polled.lessons[i].status # shown.lessons[i].status
        \/ polled.lessons[i].word_count # shown.lessons[i].word_count

\* the effect that carries polled data to the page
PollingEffect(old, new) ==
    IF /\ new.statusData = old.statusData
       /\ new.topic = old.topic
       /\ new.isConnected = old.isConnected
    THEN new
    ELSE IF new.isConnected \/ new.statusData = NULL THEN new
    ELSE LET statusData == new.statusData
             invalidate == new.topic = NULL \/ statusData.status # new.topic.status
         IN [new EXCEPT !.refetching = @ \/ invalidate,
                        !.topic = IF SomeLessonDiffers(statusData, @)
                                  THEN statusData ELSE @]

\* the fallback query: enabled, refetchInterval
PollingQuery(p) ==
    [p EXCEPT !.polling = IF p.mounted /\ Generating(p) /\ ~p.isConnected
                          THEN Milliseconds(refetchInterval) ELSE NULL]

\* a render of the page and its effects, after a task changed `old` into `new`
Render(old, new) ==
    LET connected == ConnectionEffect(old, new)
        polled == PollingEffect(old, connected)
    IN PollingQuery(ConnectionEffect(connected, polled))

\* queryClient.setQueryData(['topic', id], old => ...lessons.map(...))
SetLessons(p, Change(_)) ==
    IF p.topic = NULL THEN p
    ELSE [p EXCEPT !.topic.lessons = [i \in DOMAIN @ |-> Change(@[i])]]

SetTopicStatus(p, status) ==
    IF p.topic = NULL THEN p ELSE [p EXCEPT !.topic.status = status]

\* handleSSEEvent
HandleSSEEvent(p, event) ==
    CASE event.type = "connected" -> [p EXCEPT !.topic = event.data]
      [] event.type = "breakdown_complete" -> [p EXCEPT !.refetching = TRUE]
      [] event.type = "lesson_start" ->
            SetLessons(p, LAMBDA l : [l EXCEPT !.status = "generating"])
      [] event.type = "lesson_content_complete" ->
            SetLessons(p, LAMBDA l : [l EXCEPT !.word_count = event.data])
      [] event.type = "lesson_complete" ->
            SetLessons(p, LAMBDA l : [l EXCEPT !.status = "completed"])
      [] event.type = "lesson_error" ->
            SetLessons(p, LAMBDA l : [l EXCEPT !.status = "failed", !.retry_count = @ + 1])
      [] event.type = "generation_complete" -> SetTopicStatus(p, "completed")
      [] event.type = "generation_error" -> SetTopicStatus(p, "failed")
      [] OTHER -> p

PageEvent(type, data) == [type |-> type, data |-> data]

\* the topic with its lessons, as GET /:id and GET /:id/status answer and the stream's
\* currentStatus carries it
TopicWithLessons(api) == [status |-> api.status, lessons |-> api.lessons]

\* the events of one step of the backend reach the page one task each, as long as the
\* page has an open stream
RECURSIVE Deliver(_, _)
Deliver(p, events) ==
    IF events = <<>> \/ ~p.mounted \/ p.source # "open" THEN p
    ELSE Deliver(Render(p, HandleSSEEvent(p, Head(events))), Tail(events))

\* the page is opened: getTopic answers and the page renders
OpenPage ==
    /\ ~page.mounted
    /\ page' = Render(page, [page EXCEPT !.mounted = TRUE, !.topic = TopicWithLessons(page.api)])
    /\ UNCHANGED <<pipelineVars, sseVars, adapter, gate, standalone, refused, fn>>

\* the user leaves or reloads the page: the hook's cleanup runs and the page's state
\* is gone
ClosePage ==
    /\ page.mounted
    /\ page' = [ClosedPage EXCEPT !.api = page.api]
    /\ UNCHANGED <<pipelineVars, sseVars, adapter, gate, standalone, refused, fn>>

\* an invalidated ['topic', id] query is fetched again
GetTopic ==
    /\ page.mounted /\ page.refetching
    /\ page' = Render(page, [page EXCEPT !.refetching = FALSE, !.topic = TopicWithLessons(page.api)])
    /\ UNCHANGED <<pipelineVars, sseVars, adapter, gate, standalone, refused, fn>>

\* eventSource.onopen
StreamOpens ==
    /\ page.source = "connecting"
    /\ page' = Render(page, [page EXCEPT !.source = "open", !.isConnected = TRUE,
                                         !.isConnecting = FALSE, !.reconnectAttempts = 0])
    /\ UNCHANGED <<pipelineVars, sseVars, adapter, gate, standalone, refused, fn>>

\* the route's second 'connected' message, with currentStatus
StreamGreets ==
    /\ page.source = "open" /\ ~page.greeted
    /\ page' = Render(page, HandleSSEEvent([page EXCEPT !.greeted = TRUE],
                                           PageEvent("connected", TopicWithLessons(page.api))))
    /\ UNCHANGED <<pipelineVars, sseVars, adapter, gate, standalone, refused, fn>>

\* eventSource.onerror; afterwards the browser retries by itself or has given up
StreamError(retrying) ==
    /\ page.source \in {"connecting", "open"}
    /\ page.reconnectAttempts <= maxReconnectAttempts
    /\ LET newAttempts == page.reconnectAttempts + 1
           shouldReconnect == newAttempts <= maxReconnectAttempts
       IN page' = Render(page,
            [page EXCEPT !.source = IF retrying THEN "connecting" ELSE "closed",
                         !.greeted = FALSE,
                         !.isConnected = FALSE,
                         !.isConnecting = shouldReconnect,
                         !.reconnectAttempts = newAttempts,
                         !.reconnectTimer = IF shouldReconnect
                                            THEN Milliseconds(reconnectInterval) ELSE @])
    /\ UNCHANGED <<pipelineVars, sseVars, adapter, gate, standalone, refused, fn>>

\* the reconnect timer of onerror fires
Reconnect ==
    /\ page.reconnectTimer # NULL
    /\ page' = Render(page, Connect([page EXCEPT !.reconnectTimer = NULL]))
    /\ UNCHANGED <<pipelineVars, sseVars, adapter, gate, standalone, refused, fn>>

\* the fallback query fetches GET /:id/status
Poll ==
    /\ page.polling # NULL
    /\ page' = Render(page, [page EXCEPT !.statusData = TopicWithLessons(page.api)])
    /\ UNCHANGED <<pipelineVars, sseVars, adapter, gate, standalone, refused, fn>>

\* generateMutation / retryMutation onSuccess: invalidateQueries
OnSuccess(p) == IF p.mounted THEN [p EXCEPT !.refetching = TRUE] ELSE p

\* a step of the backend: the API's topic becomes `api`, the events are published, and
\* a request of the page is answered if `answered`
ApiStep(api, events, answered) ==
    /\ page' = LET delivered == Deliver([page EXCEPT !.api = api], events)
               IN IF answered THEN OnSuccess(delivered) ELSE delivered
    /\ UNCHANGED <<pipelineVars, sseVars, adapter, gate, standalone, refused, fn>>

\* the user starts generation; breakdownTopic marks the topic generating
ApiGenerate ==
    /\ page.mounted /\ page.api.status \in {"pending", "failed"} /\ page.api.lessons = <<>>
    /\ ApiStep([page.api EXCEPT !.status = "generating"], <<>>, FALSE)

\* the generate request is answered once the breakdown is done
ApiBreakdownCompletes ==
    /\ page.api.status = "generating" /\ page.api.lessons = <<>>
    /\ ApiStep([page.api EXCEPT !.lessons = <<[status |-> "pending", word_count |-> 0,
                                               retry_count |-> 0]>>],
               <<PageEvent("breakdown_complete", NULL)>>, TRUE)

ApiBreakdownFails ==
    /\ page.api.status = "generating" /\ page.api.lessons = <<>>
    /\ ApiStep([page.api EXCEPT !.status = "failed"], <<PageEvent("generation_error", NULL)>>,
               FALSE)

\* the user retries; retryFailedLessons marks the topic generating
ApiRetry ==
    /\ page.mounted /\ page.api.status = "failed" /\ page.api.step = "idle"
    /\ \E i \in DOMAIN page.api.lessons :
            /\ page.api.lessons[i].status = "failed"
            /\ page.api.lessons[i].retry_count < MAX_LESSON_RETRIES
    /\ ApiStep([page.api EXCEPT !.status = "generating"], <<>>, TRUE)

\* generateSingleLesson starts on the lesson
ApiLessonStart ==
    /\ page.api.status = "generating" /\ page.api.step = "idle"
    /\ page.api.lessons # <<>> /\ page.api.lessons[1].status \in {"pending", "failed"}
    /\ ApiStep([page.api EXCEPT !.step = "content", !.lessons[1].status = "generating"],
               <<PageEvent("lesson_start", NULL)>>, FALSE)

ApiContentSaved(words) ==
    /\ page.api.step = "content"
    /\ ApiStep([page.api EXCEPT !.step = "podcast", !.lessons[1].word_count = words],
               <<PageEvent("lesson_content_complete", words), PageEvent("lesson_start", NULL)>>,
               FALSE)

ApiLessonCompleted ==
    /\ page.api.step = "podcast"
    /\ ApiStep([page.api EXCEPT !.step = "idle", !.status = "completed",
                                !.lessons[1].status = "completed"],
               <<PageEvent("lesson_podcast_complete", NULL), PageEvent("lesson_complete", NULL),
                 PageEvent("generation_complete", NULL)>>, FALSE)

ApiLessonFails ==
    /\ page.api.step \in {"content", "podcast"}
    /\ ApiStep([page.api EXCEPT !.step = "idle", !.status = "failed",
                                !.lessons[1].status = "failed",
                                !.lessons[1].retry_count = @ + 1],
               <<PageEvent("lesson_error", NULL), PageEvent("generation_error", NULL)>>,
               FALSE)

PageInit ==
    /\ apiKeyConfigured = TRUE
    /\ NewPipeline
    /\ NoStreams
    /\ NoRuns
    /\ adapter = IdleAdapter(TRUE)

PageNext ==
    \/ OpenPage
    \/ ClosePage
    \/ GetTopic
    \/ StreamOpens
    \/ StreamGreets
    \/ \E retrying \in BOOLEAN : StreamError(retrying)
    \/ Reconnect
    \/ Poll
    \/ ApiGenerate
    \/ ApiBreakdownCompletes
    \/ ApiBreakdownFails
    \/ ApiRetry
    \/ ApiLessonStart
    \/ \E words \in LessonWordCounts : ApiContentSaved(words)
    \/ ApiLessonCompleted
    \/ ApiLessonFails

PageSpec == PageInit /\ [][PageNext]_vars

\* ------------------------------------------------- text helpers
\* Texts are sequences of one-character strings (the backquote is written out).

\* /[#*_<backquote>~\[\]()]/
MarkdownSyntax == {"#", "*", "_", "backquote", "~", "[", "]", "(", ")"}

\* /\s/, as far as the texts use it
Whitespace == {" ", "\n"}

\* mutant of RemoveMarkdownSyntax: nothing is removed
RemoveMarkdownSyntax_Nothing(text) == text

\* text.replace(/[#*_<backquote>~\[\]()]/g, '')
RemoveMarkdownSyntax(text) == SelectSeq(text, LAMBDA c : c \notin MarkdownSyntax)

\* String.prototype.split(/\s+/): the pieces between maximal runs of whitespace, the
\* empty piece before a leading run and after a trailing run included
RECURSIVE SplitFrom(_, _, _, _)
SplitFrom(text, i, current, pieces) ==
    IF i > Len(text) THEN Append(pieces, current)
    ELSE IF text[i] \in Whitespace
    THEN IF i > 1 /\ text[i - 1] \in Whitespace
         THEN SplitFrom(text, i + 1, current, pieces)
         ELSE SplitFrom(text, i + 1, <<>>, Append(pieces, current))
    ELSE SplitFrom(text, i + 1, Append(current, text[i]), pieces)

SplitWhitespace(text) == SplitFrom(text, 1, <<>>, <<>>)

\* countWords
CountWords(text) ==
    Len(SelectSeq(SplitWhitespace(RemoveMarkdownSyntax(text)), LAMBDA word : Len(word) > 0))

\* the characters of the texts tried
TextChars == {"a", "!", " ", "*", "["}

RECURSIVE TextsOfLength(_)
TextsOfLength(n) ==
    IF n = 0 THEN {<<>>}
    ELSE {Append(text, c) : text \in TextsOfLength(n - 1), c \in TextChars}

Texts == UNION {TextsOfLength(n) : n \in 0..MaxTextLen}

\* "**Hello** world!"
HelloWorld ==
    <<"*", "*", "H", "e", "l", "l", "o", "*", "*", " ", "w", "o", "r", "l", "d", "!">>

InsertAt(text, i, c) == SubSeq(text, 1, i) \o <<c>> \o SubSeq(text, i + 1, Len(text))

Counted(text) == [op |-> "countWords", text |-> text, result |-> CountWords(text)]

\* countWords is applied to a text
ApplyCountWords ==
    /\ \E text \in Texts \cup {HelloWorld} : fn' = Counted(text)
    /\ UNCHANGED <<pipelineVars, sseVars, adapter, gate, standalone, refused, page>>

\* countWords is applied to the text of the last application with one more markup
\* character in it
AddMarkup(i, c) ==
    /\ fn.op = "countWords"
    /\ Len(fn.text) < MaxTextLen \/ fn.text = HelloWorld
    /\ i <= Len(fn.text)
    /\ fn' = Counted(InsertAt(fn.text, i, c))
    /\ UNCHANGED <<pipelineVars, sseVars, adapter, gate, standalone, refused, page>>

TextInit ==
    /\ apiKeyConfigured = TRUE
    /\ NewPipeline
    /\ NoStreams
    /\ NoRuns
    /\ adapter = IdleAdapter(TRUE)

CountWordsNext ==
    \/ ApplyCountWords
    \/ \E i \in 0..MaxTextLen + Len(HelloWorld), c \in MarkdownSyntax : AddMarkup(i, c)

CountWordsSpec == TextInit /\ [][CountWordsNext]_vars

\* ------------------------------------------------- templates
\* String.prototype.replace reads the replacement text: $$ stands for one dollar sign
\* and $& for the matched text
RECURSIVE ExpandReplacement(_, _)
ExpandReplacement(replacement, matched) ==
    IF replacement = <<>> THEN <<>>
    ELSE IF Len(replacement) >= 2 /\ replacement[1] = "$" /\ replacement[2] = "$"
    THEN <<"$">> \o ExpandReplacement(SubSeq(replacement, 3, Len(replacement)), matched)
    ELSE IF Len(replacement) >= 2 /\ replacement[1] = "$" /\ replacement[2] = "&"
    THEN matched \o ExpandReplacement(SubSeq(replacement, 3, Len(replacement)), matched)
    ELSE <<Head(replacement)>> \o ExpandReplacement(Tail(replacement), matched)

\* the source of the regular expression: {{key}}
Placeholder(key) == <<"{", "{">> \o key \o <<"}", "}">>

MatchesAt(text, i, pattern) ==
    /\ i + Len(pattern) - 1 <= Len(text)
    /\ SubSeq(text, i, i + Len(pattern) - 1) = pattern

\* result.replace(regex, String(value)) with the g flag: the matches from left to right
RECURSIVE ReplaceAllFrom(_, _, _, _)
ReplaceAllFrom(text, i, pattern, replacement) ==
    IF i > Len(text) THEN <<>>
    ELSE IF MatchesAt(text, i, pattern)
    THEN ExpandReplacement(replacement, pattern)
            \o ReplaceAllFrom(text, i + Len(pattern), pattern, replacement)
    ELSE <<text[i]>> \o ReplaceAllFrom(text, i + 1, pattern, replacement)

\* replaceTemplateVariables: one replace per entry of Object.entries(variables), each on
\* the result of the one before
RECURSIVE ReplaceTemplateVariables(_, _)
ReplaceTemplateVariables(template, variables) ==
    IF variables = <<>> THEN template
    ELSE ReplaceTemplateVariables(
            ReplaceAllFrom(template, 1, Placeholder(Head(variables).key), Head(variables).value),
            Tail(variables))

\* the names and values tried: a plain value, a value that holds a placeholder, and a
\* value that holds a replacement pattern
TemplateKeys == {<<"a">>, <<"b">>}
TemplateValues == {<<"v">>, Placeholder(<<"a">>), Placeholder(<<"b">>), <<"$", "&">>}
TemplatePieces == {Placeholder(<<"a">>), Placeholder(<<"b">>), Placeholder(<<"c">>), <<"x">>}

RECURSIVE TemplatesOf(_)
TemplatesOf(n) ==
    IF n = 0 THEN {<<>>}
    ELSE {template \o piece : template \in TemplatesOf(n - 1), piece \in TemplatePieces}

Templates == UNION {TemplatesOf(n) : n \in 0..MaxPieces}

Entry(key, value) == [key |-> key, value |-> value]

\* the variables objects: no name twice, in the order the caller lists them
VariableLists ==
    {<<>>}
    \cup {<<Entry(k, v)>> : k \in TemplateKeys, v \in TemplateValues}
    \cup UNION {{<<Entry(k1, v1), Entry(k2, v2)>> :
                    k2 \in TemplateKeys \ {k1},
                    v1 \in TemplateValues, v2 \in TemplateValues} : k1 \in TemplateKeys}

\* "Hi {{name}}, lesson {{n}}" with { name: "Ada", n: 2 }
ExampleTemplate ==
    <<"H", "i", " ", "{", "{", "n", "a", "m", "e", "}", "}", ",", " ", "l", "e", "s", "s", "o", "n", " ", "{", "{", "n", "}", "}">>
ExampleVariables ==
    <<Entry(<<"n", "a", "m", "e">>, <<"A", "d", "a">>), Entry(<<"n">>, <<"2">>)>>
ExampleResult ==
    <<"H", "i", " ", "A", "d", "a", ",", " ", "l", "e", "s", "s", "o", "n", " ", "2">>

Applications ==
    {Entry(template, variables) : template \in Templates, variables \in VariableLists}
    \cup {Entry(ExampleTemplate, ExampleVariables)}

Replaced(template, variables) ==
    [op |-> "replaceTemplateVariables", template |-> template, variables |-> variables,
     result |-> ReplaceTemplateVariables(template, variables)]

\* replaceTemplateVariables is applied
ApplyTemplate ==
    /\ fn = NoApplication
    /\ \E application \in Applications : fn' = Replaced(application.key, application.value)
    /\ UNCHANGED <<pipelineVars, sseVars, adapter, gate, standalone, refused, page>>

\* the same template is filled from the same variables listed the other way round
ApplyReordered ==
    /\ fn.op = "replaceTemplateVariables"
    /\ Len(fn.variables) = 2
    /\ fn' = Replaced(fn.template, <<fn.variables[2], fn.variables[1]>>)
    /\ UNCHANGED <<pipelineVars, sseVars, adapter, gate, standalone, refused, page>>

\* the result is used and forgotten
TemplateReturn ==
    /\ fn.op = "replaceTemplateVariables"
    /\ fn' = NoApplication
    /\ UNCHANGED <<pipelineVars, sseVars, adapter, gate, standalone, refused, page>>

TemplateNext ==
    \/ ApplyTemplate
    \/ ApplyReordered
    \/ TemplateReturn

TemplateSpec == TextInit /\ [][TemplateNext]_vars

\* every placeholder of the template whose name is in the mapping gives way to that
\* name's value, and everything else stays
RECURSIVE SubstitutedFrom(_, _, _)
SubstitutedFrom(template, i, variables) ==
    IF i > Len(template) THEN <<>>
    ELSE LET named == {k \in DOMAIN variables :
                            MatchesAt(template, i, Placeholder(variables[k].key))}
         IN IF named = {} THEN <<template[i]>> \o SubstitutedFrom(template, i + 1, variables)
            ELSE LET k == CHOOSE k \in named : TRUE
                 IN variables[k].value
                        \o SubstitutedFrom(template, i + Len(Placeholder(variables[k].key)),
                                           variables)

\* ------------------------------------------------- SSEManager
TopicIds == 1..MaxTopics

\* the messages written to a response: the two 'connected' events of a stream opening,
\* a progress event of the pipeline (serial = the number of the publishing call), and
\* the ': heartbeat' comment
ConnectedMessage(connectionId, topicId, currentStatus) ==
    [type |-> "connected", topicId |-> topicId, connectionId |-> connectionId,
     serial |-> 0, currentStatus |-> currentStatus]
EventMessage(topicId, serial) ==
    [type |-> "event", topicId |-> topicId, connectionId |-> 0,
     serial |-> serial, currentStatus |-> NULL]
HeartbeatMessage(serial) ==
    [type |-> "heartbeat", topicId |-> 0, connectionId |-> 0,
     serial |-> serial, currentStatus |-> NULL]

\* getGenerationStatus(topicId) as the stream endpoint embeds it
StatusSnapshot(status) == [kind |-> "status", topic |-> status]

\* the manager's state inside one call: st = [connections, received, failedWrites, threw]
Registered(conns, id) == \E n \in DOMAIN conns : conns[n].id = id

\* removeConnection: this.connections.delete(connectionId)
RemoveConnection(conns, id) == SelectSeq(conns, LAMBDA c : c.id # id)

\* mutant of SendToConnection: res.write is not wrapped in try / catch
SendToConnection_NoCatch(st, brk, id, msg) ==
    IF ~Registered(st.connections, id) THEN st
    ELSE IF id \in brk
         THEN [st EXCEPT !.threw = TRUE]
         ELSE [st EXCEPT !.received[id] = Append(@, msg)]

\* sendToConnection: try { res.write } catch { removeConnection; return false }
SendToConnection(st, brk, id, msg) ==
    IF ~Registered(st.connections, id) THEN st
    ELSE IF id \in brk
         THEN [st EXCEPT !.connections = RemoveConnection(@, id),
                         !.failedWrites = @ \cup {id}]
         ELSE [st EXCEPT !.received[id] = Append(@, msg)]

\* mutant of Addressed: the topic id is not compared
Addressed_Everyone(connection, topicId) == TRUE

\* sendToTopic: if (connection.topicId === topicId)
Addressed(connection, topicId) == connection.topicId = topicId

\* sendToTopic: for (const [connectionId, connection] of this.connections) from the
\* n-th entry on; an exception would leave the loop
RECURSIVE SendToTopicFrom(_, _, _, _, _, _)
SendToTopicFrom(entries, n, st, brk, topicId, msg) ==
    IF n > Len(entries) \/ st.threw THEN st
    ELSE SendToTopicFrom(entries, n + 1,
            IF Addressed(entries[n], topicId)
            THEN SendToConnection(st, brk, entries[n].id, msg)
            ELSE st,
            brk, topicId, msg)

SendToTopic(st, brk, topicId, msg) ==
    SendToTopicFrom(st.connections, 1, st, brk, topicId, msg)

\* sendHeartbeat: try { res.write(': heartbeat') } catch { removeConnection }
RECURSIVE SendHeartbeatFrom(_, _, _, _, _)
SendHeartbeatFrom(entries, n, st, brk, msg) ==
    IF n > Len(entries) THEN st
    ELSE SendHeartbeatFrom(entries, n + 1,
            IF entries[n].id \in brk
            THEN [st EXCEPT !.connections = RemoveConnection(@, entries[n].id),
                            !.failedWrites = @ \cup {entries[n].id}]
            ELSE [st EXCEPT !.received[entries[n].id] = Append(@, msg)],
            brk, msg)

\* addConnection: connections.set(connectionId, ...), then the bare 'connected' event.
\* The id (topic id, clock, 9 random characters) is taken to be fresh.
AddConnection(st, brk, id, topicId) ==
    SendToConnection([st EXCEPT !.connections = Append(@, [id |-> id, topicId |-> topicId])],
                     brk, id, ConnectedMessage(id, topicId, NULL))

EnterCall ==
    [connections |-> connections, received |-> received,
     failedWrites |-> {}, threw |-> FALSE]

LeaveCall(st) ==
    /\ connections' = st.connections
    /\ received' = st.received
    /\ failedWrites' = st.failedWrites
    /\ threw' = st.threw
    /\ calls' = calls + 1

\* GET /api/topics/:id/stream
OpenStream(topicId) ==
    /\ calls < MaxCalls
    /\ statusOf[topicId] # "absent"
    /\ LET id == calls + 1
           st1 == AddConnection(EnterCall, broken, id, topicId)
       IN \* getGenerationStatus(topicId), then sendToTopic(topicId, 'connected' + currentStatus)
          LeaveCall(SendToTopic(st1, broken, topicId,
                                ConnectedMessage(id, topicId, StatusSnapshot(statusOf[topicId]))))
    /\ UNCHANGED <<broken, statusOf, pipelineVars, adapter, gate, standalone, refused, page, fn>>

\* req.on('close'): removeConnection
ClientClose(id) ==
    /\ Registered(connections, id)
    /\ connections' = RemoveConnection(connections, id)
    /\ UNCHANGED <<broken, received, statusOf, calls, failedWrites, threw, pipelineVars, adapter, gate, standalone, refused, page, fn>>

\* the response of a connection stops accepting writes
WriteBreaks(id) ==
    /\ Registered(connections, id)
    /\ id \notin broken
    /\ broken' = broken \cup {id}
    /\ UNCHANGED <<connections, received, statusOf, calls, failedWrites, threw, pipelineVars, adapter, gate, standalone, refused, page, fn>>

\* a pipeline step of the topic: UPDATE topics SET status, then one progress callback
Publish(topicId, status) ==
    /\ calls < MaxCalls
    /\ statusOf[topicId] # "absent"
    /\ statusOf' = [statusOf EXCEPT ![topicId] = status]
    /\ LeaveCall(SendToTopic(EnterCall, broken, topicId, EventMessage(topicId, calls + 1)))
    /\ UNCHANGED <<broken, pipelineVars, adapter, gate, standalone, refused, page, fn>>

\* the setInterval callback
Heartbeat ==
    /\ calls < MaxCalls
    /\ LeaveCall(SendHeartbeatFrom(connections, 1, EnterCall, broken,
                                   HeartbeatMessage(calls + 1)))
    /\ UNCHANGED <<broken, statusOf, pipelineVars, adapter, gate, standalone, refused, page, fn>>

\* DELETE /api/topics/:id: closeTopicConnections, then the rows are deleted
CloseTopic(topicId) ==
    /\ statusOf[topicId] # "absent"
    /\ connections' = SelectSeq(connections, LAMBDA c : c.topicId # topicId)
    /\ statusOf' = [statusOf EXCEPT ![topicId] = "absent"]
    /\ UNCHANGED <<broken, received, calls, failedWrites, threw, pipelineVars, adapter, gate, standalone, refused, page, fn>>

SseInit ==
    /\ apiKeyConfigured = TRUE
    /\ NewPipeline
    /\ NoStreams
    /\ NoRuns
    /\ adapter = IdleAdapter(TRUE)

SseNext ==
    \/ \E id \in TopicIds : OpenStream(id)
    \/ \E id \in 1..MaxCalls : ClientClose(id)
    \/ \E id \in 1..MaxCalls : WriteBreaks(id)
    \/ \E id \in TopicIds : \E st \in {"generating", "completed", "failed"} : Publish(id, st)
    \/ Heartbeat
    \/ \E id \in TopicIds : CloseTopic(id)

SseSpec == SseInit /\ [][SseNext]_vars

\* ------------------------------------------------- content source adapter
\* What the catch block of callOpenAI can be handed.  retryAfter is the 'retry-after'
\* header of a 429 response: NULL when absent, else a number of seconds or an HTTP date.
Seconds(n) == [kind |-> "seconds", value |-> n]
HttpDate == [kind |-> "date"]
NaN == [kind |-> "NaN"]
RetryAfterHeaders == {NULL, HttpDate} \cup {Seconds(n) : n \in {0, 1, 30}}

ErrorValue(class, status, isRetryable, network, retryAfter) ==
    [class |-> class, status |-> status, isRetryable |-> isRetryable,
     network |-> network, retryAfter |-> retryAfter]

OpenAIConfigError == ErrorValue("OpenAIConfigError", 0, FALSE, FALSE, NULL)
\* throw new OpenAIAPIError('No content in OpenAI response', 500, true)
NoContentError == ErrorValue("OpenAIAPIError", 500, TRUE, FALSE, NULL)
\* parseJsonResponse: throw new OpenAIAPIError('Failed to parse JSON response ...', 500, false)
ParseError == ErrorValue("OpenAIAPIError", 500, FALSE, FALSE, NULL)

\* the rejections of openai.chat.completions.create
RequestErrors ==
    {ErrorValue("AbortError", 0, FALSE, FALSE, NULL)}
    \cup {ErrorValue("APIError", st, FALSE, FALSE, NULL) : st \in {400, 401, 500, 502, 503}}
    \cup {ErrorValue("APIError", 429, FALSE, FALSE, h) : h \in RetryAfterHeaders}
    \cup {ErrorValue("Error", 0, FALSE, nw, NULL) : nw \in BOOLEAN}
    \cup {NoContentError}

\* parseInt(error.headers?.['retry-after'] || '60', 10)
ParseRetryAfter(header) ==
    IF header = NULL THEN Seconds(defaultRetryAfter)
    ELSE IF header.kind = "seconds" THEN header
    ELSE NaN

\* callOpenAI catch: AbortError -> OpenAITimeoutError, 429 -> OpenAIRateLimitError
Reclassify(error) ==
    IF error.class = "AbortError"
    THEN ErrorValue("OpenAITimeoutError", 0, FALSE, FALSE, NULL)
    ELSE IF error.class = "APIError" /\ error.status = 429
    THEN ErrorValue("OpenAIRateLimitError", 0, FALSE, FALSE, ParseRetryAfter(error.retryAfter))
    ELSE error

\* mutant of CategorizeError: every service error is taken to be retryable
CategorizeError_ServiceErrorsRetryable(error) ==
    [isRetryable |-> error.class # "OpenAIConfigError",
     retryAfter |-> IF error.class = "OpenAIRateLimitError" THEN error.retryAfter ELSE NULL]

\* categorizeError: isRetryable and retryAfter of its result
CategorizeError(error) ==
    CASE error.class = "OpenAIConfigError" -> [isRetryable |-> FALSE, retryAfter |-> NULL]
      [] error.class = "OpenAIRateLimitError" ->
            [isRetryable |-> TRUE, retryAfter |-> error.retryAfter]
      [] error.class = "OpenAITimeoutError" -> [isRetryable |-> TRUE, retryAfter |-> NULL]
      [] error.class = "OpenAIAPIError" ->
            [isRetryable |-> error.isRetryable, retryAfter |-> NULL]
      [] error.class = "APIError" ->
            [isRetryable |-> error.status \in {429, 500, 502, 503},
             retryAfter |-> IF error.status = 429 THEN Seconds(defaultRetryAfter) ELSE NULL]
      [] OTHER -> [isRetryable |-> error.network, retryAfter |-> NULL]

\* Math.random() in hundredths: 0 <= r < 100
RandomHundredths == {0, 50, 99}

Min(a, b) == IF a <= b THEN a ELSE b

\* calculateBackoff: Math.floor(exponentialDelay + exponentialDelay * Math.random() * 0.25)
CalculateBackoff(attempt, r) ==
    LET exponentialDelay == Min(baseDelay * 2^attempt, maxDelay)
    IN (exponentialDelay * 10000 + exponentialDelay * r * jitterPercent) \div 10000

\* JavaScript truthiness of retryAfter: undefined, NaN and 0 are falsy
Truthy(retryAfter) ==
    /\ retryAfter # NULL
    /\ retryAfter # NaN
    /\ retryAfter.value # 0

\* const backoffTime = retryAfter ? retryAfter * 1000 : calculateBackoff(attempt)
BackoffTime(retryAfter, attempt, r) ==
    IF Truthy(retryAfter) THEN retryAfter.value * 1000 ELSE CalculateBackoff(attempt, r)

\* mutant of Exhausted: the comparison is > instead of >=
Exhausted_OffByOne(attempt, limit) == attempt > limit

\* callOpenAI catch: attempt >= maxRetries
Exhausted(attempt, limit) == attempt >= limit

\* callOpenAI catch block, up to `throw lastError` or `await sleep(backoffTime)`
HandleFailure(a, error, r) ==
    LET lastError == Reclassify(error)
        category == CategorizeError(lastError)
        backoffTime == BackoffTime(category.retryAfter, a.attempt, r)
    IN IF ~category.isRetryable \/ Exhausted(a.attempt, a.maxRetries)
       THEN [a EXCEPT !.pc = "thrown", !.lastError = lastError]
       ELSE \* onRetry?.(attempt + 1, lastError, backoffTime); await sleep(backoffTime)
            [a EXCEPT !.pc = "sleeping", !.lastError = lastError, !.retries = @ + 1,
                      !.lastRetry = [delay |-> backoffTime,
                                     onRetry |-> [attempt |-> a.attempt + 1,
                                                  error |-> lastError,
                                                  nextRetryIn |-> backoffTime]]]

\* one iteration of the for-loop, up to `await openai.chat.completions.create`:
\* getOpenAIClient throws OpenAIConfigError when the key is not set
EnterAttempt(a) ==
    IF ~a.keySet
    THEN HandleFailure(a, OpenAIConfigError, 0)
    ELSE [a EXCEPT !.pc = "request", !.requests = @ + 1]

MaxRetriesOptions == {0, defaultMaxRetries, MaxRetriesOption}

\* callOpenAI(promptName, variables, {maxRetries}) up to its first await
CallOpenAI(promptFound, limit) ==
    /\ adapter.pc = "idle"
    /\ adapter' =
         IF ~promptFound
         THEN \* throw new OpenAIConfigError(`Prompt template "${promptName}" not found`)
              [adapter EXCEPT !.pc = "thrown", !.maxRetries = limit,
                              !.lastError = OpenAIConfigError]
         ELSE EnterAttempt([adapter EXCEPT !.maxRetries = limit])
    /\ UNCHANGED <<pipelineVars, sseVars, gate, standalone, refused, page, fn>>

\* the request resolves with content: return content
RequestSucceeds(parseable) ==
    /\ adapter.pc = "request"
    /\ adapter' = [adapter EXCEPT !.pc = "returned",
                                  !.result = [kind |-> "content", parseable |-> parseable]]
    /\ UNCHANGED <<pipelineVars, sseVars, gate, standalone, refused, page, fn>>

\* the request rejects, is aborted by the deadline, or resolves without content
RequestFails(error, r) ==
    /\ adapter.pc = "request"
    /\ adapter' = HandleFailure(adapter, error, r)
    /\ UNCHANGED <<pipelineVars, sseVars, gate, standalone, refused, page, fn>>

\* sleep(backoffTime) resolves: attempt++ and the next iteration
SleepEnds ==
    /\ adapter.pc = "sleeping"
    /\ adapter' = EnterAttempt([adapter EXCEPT !.attempt = @ + 1])
    /\ UNCHANGED <<pipelineVars, sseVars, gate, standalone, refused, page, fn>>

\* parseJsonResponse on the returned text (breakdownTopic)
ParseJsonResponse ==
    /\ adapter.pc = "returned"
    /\ adapter' = IF adapter.result.parseable
                  THEN [adapter EXCEPT !.pc = "parsed"]
                  ELSE [adapter EXCEPT !.pc = "thrown", !.lastError = ParseError]
    /\ UNCHANGED <<pipelineVars, sseVars, gate, standalone, refused, page, fn>>

AdapterInit ==
    /\ apiKeyConfigured = TRUE
    /\ NewPipeline
    /\ NoStreams
    /\ NoRuns
    /\ \E keySet \in BOOLEAN : adapter = IdleAdapter(keySet)

AdapterNext ==
    \/ \E promptFound \in BOOLEAN : \E limit \in MaxRetriesOptions :
            CallOpenAI(promptFound, limit)
    \/ \E parseable \in BOOLEAN : RequestSucceeds(parseable)
    \/ \E error \in RequestErrors : \E r \in RandomHundredths : RequestFails(error, r)
    \/ SleepEnds
    \/ ParseJsonResponse

AdapterSpec == AdapterInit /\ [][AdapterNext]_vars

\* ------------------------------------------------- word-count gate, step by step
\* generateLessonContent / generatePodcastSummary as the event loop runs them: one step
\* per awaited request.  gate.call is the request being awaited: the callOpenAI call of
\* the first pass, or the request expandContent makes on a client of its own.
MinWords(kind) == IF kind = "lesson" THEN lessonMinWords ELSE podcastMinWords
MaxWords(kind) == IF kind = "lesson" THEN lessonMaxWords ELSE podcastMaxWords

\* countWords of the answers: under the band, its two ends, inside it and over it
GateWordCounts(kind) ==
    {MinWords(kind) - 1, MinWords(kind), MinWords(kind) + 1, MaxWords(kind),
     MaxWords(kind) + 1}

\* mutant of TooShort: whatever is outside the band is expanded
TooShort_OutOfBand(wordCount, minWords, maxWords) ==
    wordCount < minWords \/ wordCount > maxWords

\* if (wordCount >= minWords && wordCount <= maxWords) return ...; if (wordCount < minWords)
TooShort(wordCount, minWords, maxWords) ==
    /\ ~(wordCount >= minWords /\ wordCount <= maxWords)
    /\ wordCount < minWords

\* mutant of LoopContinues: the loop is entered once more
LoopContinues_OneMore(attempt) == attempt <= maxRetries + 1

\* for (let attempt = 1; attempt <= maxRetries; attempt++)
LoopContinues(attempt) == attempt <= maxRetries

\* the request of expandContent: new OpenAI(...).chat.completions.create(...), no
\* AbortController, no loop around it
DirectRequest == [IdleAdapter(TRUE) EXCEPT !.pc = "request", !.requests = 1]

\* expandContent up to its await
ExpandContent(g) ==
    [g EXCEPT !.pc = "expanding", !.expansions = @ + 1, !.call = DirectRequest,
              !.deadline = NULL]

\* the for-loop at `attempt`: the next expandContent, or the return after the loop
EnterLoop(g, attempt) ==
    IF LoopContinues(attempt)
    THEN ExpandContent([g EXCEPT !.attempt = attempt])
    ELSE [g EXCEPT !.pc = "returned", !.attempt = attempt]

\* wordCount = countWords(content) of the first pass, up to the next await or return
AfterFirstPass(g, words) ==
    LET g1 == [g EXCEPT !.firstPass = words, !.wordCount = words]
    IN IF TooShort(words, MinWords(g.kind), MaxWords(g.kind))
       THEN EnterLoop(g1, 1)
       ELSE [g1 EXCEPT !.pc = "returned"]

\* wordCount = countWords(content) of an expansion, up to the next await or return
AfterExpansion(g, words) ==
    LET g1 == [g EXCEPT !.wordCount = words]
    IN IF words >= MinWords(g.kind)
       THEN [g1 EXCEPT !.pc = "returned"]
       ELSE EnterLoop(g1, g.attempt + 1)


\* callOpenAI('lesson_content' | 'podcast_summary', ..., {maxTokens, temperature}):
\* maxRetries and timeout take their defaults
FirstPass(kind) ==
    [IdleGate EXCEPT !.pc = "first", !.kind = kind, !.deadline = Milliseconds(defaultTimeout),
                     !.call = EnterAttempt([IdleAdapter(TRUE) EXCEPT
                                                !.maxRetries = defaultMaxRetries])]

GenerateLessonContent ==
    /\ gate.pc = "idle"
    /\ gate' = FirstPass("lesson")
    /\ UNCHANGED <<pipelineVars, sseVars, adapter, standalone, refused, page, fn>>

GeneratePodcastSummary ==
    /\ gate.pc = "idle"
    /\ gate' = FirstPass("podcast")
    /\ UNCHANGED <<pipelineVars, sseVars, adapter, standalone, refused, page, fn>>

\* callOpenAI returns the first pass
FirstPassReturns(words) ==
    /\ gate.pc = "first"
    /\ gate.call.pc = "request"
    /\ words \in GateWordCounts(gate.kind)
    /\ gate' = AfterFirstPass([gate EXCEPT !.call.pc = "returned"], words)
    /\ UNCHANGED <<pipelineVars, sseVars, adapter, standalone, refused, page, fn>>

\* a request of the first pass fails inside callOpenAI: its catch block retries or throws
FirstPassFails(error, r) ==
    /\ gate.pc = "first"
    /\ gate.call.pc = "request"
    /\ LET c == HandleFailure(gate.call, error, r)
       IN gate' = IF c.pc = "thrown"
                  THEN [gate EXCEPT !.pc = "thrown", !.call = c, !.error = c.lastError]
                  ELSE [gate EXCEPT !.call = c]
    /\ UNCHANGED <<pipelineVars, sseVars, adapter, standalone, refused, page, fn>>

\* the backoff sleep of callOpenAI ends
FirstPassSleepEnds ==
    /\ gate.pc = "first"
    /\ gate.call.pc = "sleeping"
    /\ gate' = [gate EXCEPT !.call = EnterAttempt([gate.call EXCEPT !.attempt = @ + 1])]
    /\ UNCHANGED <<pipelineVars, sseVars, adapter, standalone, refused, page, fn>>

\* the request of expandContent resolves: response.choices[0]?.message?.content ||
\* existingContent, so an answer without content leaves the word count as it was
ExpansionReturns(words) ==
    /\ gate.pc = "expanding"
    /\ words \in GateWordCounts(gate.kind) \cup {gate.wordCount}
    /\ gate' = AfterExpansion([gate EXCEPT !.call.pc = "returned"], words)
    /\ UNCHANGED <<pipelineVars, sseVars, adapter, standalone, refused, page, fn>>

\* the request of expandContent rejects: nothing in expandContent or in the gate catches
ExpansionFails(error) ==
    /\ gate.pc = "expanding"
    /\ gate' = [gate EXCEPT !.pc = "thrown", !.error = error,
                            !.call.pc = "thrown", !.call.lastError = error]
    /\ UNCHANGED <<pipelineVars, sseVars, adapter, standalone, refused, page, fn>>

\* the rejections a request without an AbortController can end in
DirectRequestErrors == {e \in RequestErrors : e.class \in {"APIError", "Error"}}

GateInit ==
    /\ apiKeyConfigured = TRUE
    /\ NewPipeline
    /\ NoStreams
    /\ NoRuns
    /\ adapter = IdleAdapter(TRUE)

GateNext ==
    \/ GenerateLessonContent
    \/ GeneratePodcastSummary
    \/ \E words \in GateWordCounts("lesson") \cup GateWordCounts("podcast") :
            FirstPassReturns(words)
    \/ \E error \in RequestErrors : \E r \in RandomHundredths : FirstPassFails(error, r)
    \/ FirstPassSleepEnds
    \/ \E words \in GateWordCounts("lesson") \cup GateWordCounts("podcast") :
            ExpansionReturns(words)
    \/ \E error \in DirectRequestErrors : ExpansionFails(error)

GateSpec == GateInit /\ [][GateNext]_vars

\* every awaited request settles and every timer fires
GateFairSpec == GateSpec /\ WF_vars(GateNext)

\* ------------------------------------------------- type
Statuses == {"pending", "generating", "completed", "failed"}

TypeOK ==
    /\ topic.status \in Statuses
    /\ \A k \in DOMAIN lessons : lessons[k].status \in Statuses /\ lessons[k].id = k
    /\ \A t \in Slots : tasks[t].i \in 0..Len(tasks[t].lessons)

\* ------------------------------------------------- observations
\* a pass is inside generateSingleLesson, waiting on a completion-service call
InAttempt(t) == tasks[t].pc \in {"content", "podcast"}
\* the lesson (id) the pass is generating
Current(t) == tasks[t].lessons[tasks[t].i].id
\* in this step pass t enters generateSingleLesson for lesson k
Starts(t, k) ==
    /\ Len(tasks'[t].started) = Len(tasks[t].started) + 1
    /\ tasks'[t].started[Len(tasks'[t].started)] = k
\* in this step pass t leaves generateSingleLesson for its current lesson
Leaves(t) ==
    /\ InAttempt(t)
    /\ tasks'[t].pc = "idle" \/ tasks'[t].i # tasks[t].i
\* in this step pass t writes the topic's final status
Finishes(t) ==
    /\ tasks'[t].pc = "idle"
    /\ \/ InAttempt(t)
       \/ /\ tasks[t].pc = "scheduled" /\ tasks[t].kind = "generate"
          /\ topic.exists /\ Len(lessons) > 0
Kept == DOMAIN lessons \cap DOMAIN lessons'
StatusChange(a, b) ==
    \/ a = b
    \/ <<a, b>> \in {<<"pending", "generating">>, <<"generating", "completed">>,
                     <<"generating", "failed">>, <<"failed", "generating">>}
HasFile(fs, path, words) == [path |-> path, words |-> words] \in fs
\* the persisted state an event announces, against what a status query would have read
\* when it was published
Announced(e) ==
    LET tp == e.seen.topic
        row == e.seen.lesson
    IN CASE e.type = "breakdown_start" -> tp.status = "generating"
         [] e.type = "breakdown_complete" ->
                e.seen.rows = e.count /\ tp.lesson_count = e.count
         [] e.type = "lesson_start" ->
                /\ row.status = "generating"
                /\ e.step = "podcast" => row.file_path # NULL
         [] e.type = "lesson_content_complete" ->
                row.file_path # NULL /\ row.word_count = e.count
         [] e.type = "lesson_podcast_complete" ->
                row.podcast_file_path # NULL /\ row.podcast_word_count = e.count
         [] e.type = "lesson_complete" -> row.status = "completed"
         [] e.type = "lesson_error" -> row.status = "failed" /\ row.last_error = e.error
         [] e.type = "generation_complete" -> tp.status = "completed"
         [] e.type = "generation_error" ->
                tp.status = "failed" /\ tp.last_error = e.error
\* the records the event is about still exist when it is published
AboutExisting(e) ==
    /\ e.seen.topic # NULL
    /\ e.lessonNumber # 0 => e.seen.lesson # NULL
\* a handler or pass is waiting on a completion-service call
AwaitingCall(t) == tasks[t].pc \in {"breakdown", "content", "podcast"}

\* ------------------------------------------------- claims
\* C1: every change of a Lesson's persisted status is pending -> generating,
\* generating -> completed, generating -> failed or failed -> generating.
C1_LessonStatusChanges ==
    [][\A k \in Kept : StatusChange(lessons[k].status, lessons'[k].status)]_vars

\* C2: every change of a Topic's persisted status is pending -> generating,
\* generating -> completed, generating -> failed or failed -> generating, and the
\* topic is marked generating whenever a pass is inside its lesson loop.
C2_TopicStatusChanges ==
    [][/\ (topic.exists /\ topic'.exists) => StatusChange(topic.status, topic'.status)
       /\ \A t \in Slots : (InAttempt(t)' /\ topic'.exists) => topic'.status = "generating"]_vars

\* C3: a completed Lesson has its body file path and word count and its script file
\* path and word count recorded, both files are on disk with those word counts, and a
\* Lesson becomes completed only in the step that writes the script of an attempt
\* whose body was written before.
C3_CompletedHasArtifacts ==
    /\ [](\A k \in DOMAIN lessons : lessons[k].status = "completed" =>
            /\ lessons[k].file_path = LessonFile(lessons[k].lesson_number)
            /\ lessons[k].podcast_file_path = PodcastFile(lessons[k].lesson_number)
            /\ lessons[k].word_count \in LessonWordCounts
            /\ lessons[k].podcast_word_count \in PodcastWordCounts
            /\ HasFile(files, lessons[k].file_path, lessons[k].word_count)
            /\ HasFile(files, lessons[k].podcast_file_path, lessons[k].podcast_word_count))
    /\ [][\A k \in Kept :
            (lessons'[k].status = "completed" /\ lessons[k].status # "completed") =>
                \E t \in Slots :
                    /\ tasks[t].pc = "podcast" /\ Current(t) = k /\ Leaves(t)
                    /\ tasks[t].lessonContent \in LessonWordCounts
                    /\ HasFile(files, LessonFile(lessons[k].lesson_number),
                               lessons[k].word_count)]_vars

C3_Witness ==
    \E k \in DOMAIN lessons : lessons[k].status = "completed" /\ lessons[k].retry_count > 0

\* C4: every Lesson's persisted retry counter is at most 3.
C4_RetryCountAtMostThree ==
    \A k \in DOMAIN lessons : lessons[k].retry_count <= 3

C4_Witness ==
    \E k \in DOMAIN lessons : lessons[k].retry_count = 3 /\ lessons[k].status = "failed"

\* C5: no generate-lesson attempt is started for a Lesson whose persisted retry
\* counter is 3.
C5_NoAttemptAtCeiling ==
    [][\A k \in DOMAIN lessons : lessons[k].retry_count = 3 =>
            \A t \in Slots : ~Starts(t, k)]_vars

\* C6: a completed Lesson is never modified again.
C6_CompletedUntouched ==
    [][\A k \in Kept : lessons[k].status = "completed" => lessons'[k] = lessons[k]]_vars

\* C7: the pass that writes the final status marks the Topic completed exactly when
\* every Lesson is completed at that moment, and otherwise failed with a last_error
\* that carries completed/total.
C7_FinalTopicStatus ==
    [][\A t \in Slots : (Finishes(t) /\ topic'.exists) =>
            LET done == {k \in DOMAIN lessons' : lessons'[k].status = "completed"}
            IN IF done = DOMAIN lessons'
               THEN topic'.status = "completed" /\ topic'.last_error = NULL
               ELSE /\ topic'.status = "failed"
                    /\ topic'.last_error.kind = "ratio"
                    /\ topic'.last_error.completed = Cardinality(done)
                    /\ topic'.last_error.total = Len(lessons')]_vars

C7_Witness ==
    /\ topic.exists /\ topic.status = "failed"
    /\ topic.last_error = RatioMessage(1, 1, 2)
    /\ \A t \in Slots : tasks[t].pc = "idle"

\* C8: an exception in one lesson of a generate-all pass marks that lesson failed,
\* adds one to its retry counter, records the error, changes the counter of no other
\* lesson, and the pass then attempts the next later lesson that is neither completed
\* nor at the ceiling.
C8_FailureIsPerLesson ==
    [][\A t \in Slots :
        (/\ tasks[t].kind = "generate" /\ Leaves(t)
         /\ Current(t) \in Kept /\ lessons'[Current(t)].status = "failed") =>
            LET k == Current(t)
                later == {j \in DOMAIN lessons : j > k /\ lessons[j].status # "completed"
                                                      /\ lessons[j].retry_count < 3}
            IN /\ lessons'[k].retry_count = lessons[k].retry_count + 1
               /\ lessons'[k].last_error # NULL
               /\ \A j \in Kept \ {k} : lessons'[j].retry_count = lessons[j].retry_count
               /\ later # {} => Starts(t, CHOOSE j \in later : \A m \in later : j <= m)
               /\ later = {} => tasks'[t].pc = "idle"]_vars

\* C9: a retry-failed pass calls generate-lesson exactly once for each Lesson that is
\* failed or pending with retry counter below 3 when the pass selects, in ascending
\* lesson number, and for no other; when none qualifies it changes nothing.
C9_RetryRunsSelection ==
    [][\A t \in Slots : tasks[t].kind = "retry" =>
        LET qualifies == {k \in DOMAIN lessons :
                            /\ lessons[k].status \in {"failed", "pending"}
                            /\ lessons[k].retry_count < 3}
        IN /\ (tasks[t].pc = "scheduled" /\ tasks'[t].pc # "scheduled") =>
                IF qualifies = {}
                THEN /\ tasks'[t].pc = "idle"
                     /\ UNCHANGED <<topic, lessons, files>>
                ELSE /\ {tasks'[t].selected[n] : n \in DOMAIN tasks'[t].selected} = qualifies
                     /\ \A m, n \in DOMAIN tasks'[t].selected :
                            m < n => lessons[tasks'[t].selected[m]].lesson_number
                                        < lessons[tasks'[t].selected[n]].lesson_number
                     /\ tasks'[t].started = <<tasks'[t].selected[1]>>
           /\ (InAttempt(t) /\ InAttempt(t)') =>
                /\ tasks'[t].selected = tasks[t].selected
                /\ \/ tasks'[t].started = tasks[t].started
                   \/ tasks'[t].started =
                        SubSeq(tasks[t].selected, 1, Len(tasks[t].started) + 1)
           /\ (InAttempt(t) /\ tasks'[t].pc = "idle") =>
                tasks[t].started = tasks[t].selected]_vars

C9_Witness ==
    \E t \in Slots :
        /\ tasks[t].kind = "retry" /\ InAttempt(t)
        /\ Len(tasks[t].selected) = 2
        /\ tasks[t].started = tasks[t].selected

\* C10: at most one completion-service call is outstanding for the topic, and no two
\* generate-lesson attempts of the topic overlap.
C10_OneCallOutstanding ==
    Cardinality({t \in Slots : tasks[t].pc \in {"breakdown", "content", "podcast"}}) <= 1

\* C11: a generate request is rejected, starting no pass and changing no topic or
\* lesson state, whenever a pass of the topic is inside its lesson loop or the topic
\* is completed.
C11_GenerateRejectedWhileRunning ==
    [][\A t \in Slots :
        (tasks[t].pc = "idle" /\ tasks'[t].pc # "idle" /\ tasks'[t].kind = "generate") =>
            /\ \A u \in Slots : ~InAttempt(u)
            /\ topic.status # "completed"]_vars

\* C12: after a stop in the middle of a lesson attempt that leaves the topic persisted
\* as generating with a lesson not yet completed, a retry request for the topic is
\* accepted.
C12_RetryAcceptedAfterRestart ==
    [][(/\ Restart /\ \E t \in Slots : InAttempt(t)
        /\ apiKeyConfigured /\ topic.exists /\ topic.status = "generating"
        /\ \E k \in DOMAIN lessons : lessons[k].status # "completed")
            => RetryAccepted']_vars

\* C13: whenever the pipeline publishes an event about a topic and lesson that still
\* exist, the persisted records already contain the state the event announces.
C13_EventAfterWrite ==
    \A n \in DOMAIN published :
        AboutExisting(published[n]) => Announced(published[n])

\* C14: a request whose completion-service call is outstanding has already been
\* answered: no handler waits on a completion-service call before it responds.
C14_ResponseBeforeCalls ==
    \A t \in Slots : AwaitingCall(t) => tasks[t].responded

\* --- observations of the SSEManager
\* the topic a connection id was opened for (its first message is the bare 'connected')
OpenedFor(id) == received[id][1].topicId
\* how often message m was written to connection id
Copies(id, m) == Cardinality({n \in DOMAIN received[id] : received[id][n] = m})
RegisteredIds == {connections[n].id : n \in DOMAIN connections}

\* C15: publish(jobId, event) writes the event exactly once to each channel registered
\* under jobId at the moment of the call whose write succeeds and to no other channel;
\* a channel never holds an event published before it registered, for another id, or
\* twice.
C15_PublishReachesRegistered ==
    /\ [](\A id \in 1..MaxCalls : \A n \in DOMAIN received[id] :
            received[id][n].type = "event" =>
                /\ received[id][n].topicId = OpenedFor(id)
                /\ received[id][n].serial > id
                /\ Copies(id, received[id][n]) = 1)
    /\ [][\A topicId \in TopicIds : \A status \in Statuses :
            Publish(topicId, status) =>
                \A id \in 1..MaxCalls :
                    received'[id] =
                        IF /\ id \in RegisteredIds /\ OpenedFor(id) = topicId
                           /\ id \notin broken
                        THEN Append(received[id], EventMessage(topicId, calls + 1))
                        ELSE received[id]]_vars

\* one channel got an event and a channel of the same topic that registered after
\* the publish holds no copy of it
C15_Witness ==
    \E a, b \in RegisteredIds : \E k \in 1..MaxCalls :
        /\ a < k /\ k < b /\ OpenedFor(a) = OpenedFor(b)
        /\ Copies(a, EventMessage(OpenedFor(a), k)) = 1
        /\ Copies(b, EventMessage(OpenedFor(a), k)) = 0

\* C16: when a write fails during a publish or a keep-alive, exactly the channels
\* whose write failed are deregistered, every other channel stays registered, the
\* other addressed channels get the message, and nothing is thrown to the caller.
C16_FailedWriteDropsOnlyThatChannel ==
    [][\A topicId \in TopicIds : \A status \in Statuses :
        (Publish(topicId, status) \/ Heartbeat) =>
            LET addressed == {id \in RegisteredIds : Heartbeat \/ OpenedFor(id) = topicId}
            IN /\ ~threw'
               /\ failedWrites' = addressed \cap broken
               /\ {connections'[n].id : n \in DOMAIN connections'}
                        = RegisteredIds \ (addressed \cap broken)
               /\ \A id \in addressed \ broken :
                        Len(received'[id]) = Len(received[id]) + 1
               /\ \A id \in (1..MaxCalls) \ (addressed \ broken) :
                        received'[id] = received[id]]_vars

\* a publish dropped a broken channel and still reached a channel behind it
C16_Witness ==
    \E a, b \in 1..MaxCalls :
        /\ a < b /\ a \in failedWrites /\ a \notin RegisteredIds
        /\ b \in RegisteredIds /\ OpenedFor(a) = OpenedFor(b)
        /\ Copies(b, EventMessage(OpenedFor(b), calls)) = 1
        /\ ~threw

\* C17: the first message written to a newly opened stream carries the topic's
\* current status snapshot.
C17_InitialMessageHasSnapshot ==
    [][\A topicId \in TopicIds :
        OpenStream(topicId) =>
            received'[calls + 1][1].currentStatus = StatusSnapshot(statusOf[topicId])]_vars

\* --- observations of the adapter
AdapterRunning == adapter.pc \in {"request", "sleeping"}
\* a retry is scheduled in this step
RetryScheduled == adapter'.retries = adapter.retries + 1
\* the failures the adapter is to retry: rate limit, timeout, transient network
\* error, and a retryable service error (500 / 502 / 503, empty response)
Transient(error) ==
    \/ error.class \in {"OpenAIRateLimitError", "OpenAITimeoutError"}
    \/ error.class = "Error" /\ error.network
    \/ error.class = "APIError" /\ error.status \in {500, 502, 503}
    \/ error = NoContentError
\* loop position of a call: grows with every step until the call ends
Progress(a) ==
    CASE a.pc = "idle" -> 0
      [] a.pc = "request" -> 2 * a.attempt + 1
      [] a.pc = "sleeping" -> 2 * a.attempt + 2
      [] OTHER -> 2 * a.maxRetries + 2 + (IF a.pc = "parsed" THEN 1 ELSE 0)

\* C18: one callOpenAI call retries only transient failures, makes at most maxRetries
\* retries after the first attempt, and always ends: it returns the text of the
\* successful attempt or throws the (reclassified) error of its last attempt.
C18_AdapterRetriesBounded ==
    /\ [](/\ adapter.attempt <= adapter.maxRetries
          /\ adapter.retries <= adapter.maxRetries
          /\ adapter.requests <= adapter.retries + 1
          /\ AdapterRunning => ENABLED AdapterNext)
    /\ [][/\ RetryScheduled => Transient(adapter'.lastError)
          /\ AdapterRunning => Progress(adapter') > Progress(adapter)
          /\ \A parseable \in BOOLEAN : RequestSucceeds(parseable) =>
                /\ adapter'.pc = "returned"
                /\ adapter'.result = [kind |-> "content", parseable |-> parseable]
          /\ \A error \in RequestErrors : \A r \in RandomHundredths :
                RequestFails(error, r) =>
                    /\ adapter'.pc \in {"thrown", "sleeping"}
                    /\ adapter'.lastError = Reclassify(error)
                    /\ (adapter'.pc = "thrown" /\ Transient(Reclassify(error)))
                            => adapter.attempt = adapter.maxRetries]_vars

\* the default ceiling is used up: four requests, three retries, then the throw
C18_Witness ==
    /\ adapter.pc = "thrown" /\ adapter.maxRetries = defaultMaxRetries
    /\ adapter.retries = defaultMaxRetries /\ adapter.requests = defaultMaxRetries + 1
    /\ adapter.lastError.class = "OpenAITimeoutError"

\* C19: a non-transient failure (missing credential, missing prompt template,
\* non-retryable service error, unparseable response) ends the call with that error in
\* the step it occurs in: no retry is scheduled, no delay, no observer callback, no
\* further request; when it is the first failure the call made at most one request.
C19_NonTransientPropagates ==
    /\ [][/\ \A error \in RequestErrors : \A r \in RandomHundredths :
                (RequestFails(error, r) /\ ~Transient(Reclassify(error))) =>
                    /\ adapter'.pc = "thrown"
                    /\ adapter'.lastError = Reclassify(error)
                    /\ adapter'.retries = adapter.retries
                    /\ adapter'.lastRetry = adapter.lastRetry
                    /\ adapter'.requests = adapter.requests
          /\ \A limit \in MaxRetriesOptions :
                (CallOpenAI(FALSE, limit) \/ (CallOpenAI(TRUE, limit) /\ ~adapter.keySet)) =>
                    /\ adapter'.pc = "thrown"
                    /\ adapter'.lastError = OpenAIConfigError
                    /\ adapter'.requests = 0 /\ adapter'.lastRetry = NULL
          /\ (ParseJsonResponse /\ ~adapter.result.parseable) =>
                    /\ adapter'.pc = "thrown"
                    /\ adapter'.lastError = ParseError
                    /\ adapter'.requests = adapter.requests]_vars
    /\ [](adapter.pc = "thrown" /\ ~Transient(adapter.lastError) /\ adapter.retries = 0
            => adapter.requests <= 1 /\ adapter.lastRetry = NULL)

\* a 400 answer to the first request of a call with the default ceiling
C19_Witness ==
    /\ adapter.pc = "thrown" /\ adapter.maxRetries = defaultMaxRetries
    /\ adapter.lastError.class = "APIError" /\ adapter.lastError.status = 400
    /\ adapter.requests = 1 /\ adapter.retries = 0 /\ adapter.lastRetry = NULL

\* C20: the delay before the retry after failed attempt k is, for a rate-limit
\* failure, the retry-after value in seconds (any number, 60 s when absent), and for
\* every other transient failure d plus jitter with d = min(1000 * 2^k, 60000) ms
\* and 0 <= jitter <= d/4; the observer callback gets this delay and attempt k + 1.
C20_RetryDelay ==
    [][\A error \in RequestErrors : \A r \in RandomHundredths :
        (RequestFails(error, r) /\ RetryScheduled) =>
            LET k == adapter.attempt
                d == Min(1000 * 2^k, 60000)
                delay == adapter'.lastRetry.delay
            IN /\ error.status = 429 =>
                    /\ error.retryAfter = NULL => delay = 60 * 1000
                    /\ (error.retryAfter # NULL /\ error.retryAfter.kind = "seconds")
                            => delay = error.retryAfter.value * 1000
               /\ error.status # 429 => (d <= delay /\ 4 * delay <= 5 * d)
               /\ adapter'.lastRetry.onRetry.nextRetryIn = delay
               /\ adapter'.lastRetry.onRetry.attempt = k + 1]_vars

\* C21: for the lesson body (band 2700-3300) and the companion script (band 1000-1200),
\* a first pass whose word count is inside the band or above its maximum is accepted
\* unchanged and no expansion request is issued.
C21_NoExpansionFromMinimumUp ==
    /\ [](\A band \in {<<"lesson", 2700>>, <<"podcast", 1000>>} :
            (gate.kind = band[1] /\ gate.firstPass >= band[2]) =>
                /\ gate.pc = "returned"
                /\ gate.expansions = 0
                /\ gate.wordCount = gate.firstPass)
    /\ [][\A words \in GateWordCounts(gate.kind) :
            (FirstPassReturns(words) /\ words >= MinWords(gate.kind)) =>
                /\ gate'.pc = "returned"
                /\ gate'.wordCount = words
                /\ gate'.expansions = 0]_vars

\* a lesson body one word over the band is returned as it came
C21_Witness ==
    /\ gate.pc = "returned" /\ gate.kind = "lesson"
    /\ gate.firstPass = 3301 /\ gate.wordCount = 3301 /\ gate.expansions = 0

\* C22: when the first pass is below the minimum at most 2 expansion requests are
\* issued; the loop stops right after the first expansion whose re-measured count
\* reaches the minimum, after the second expansion the text is accepted even if it is
\* still under length, and the loop always ends.
C22_AtMostTwoExpansions ==
    /\ [](/\ gate.expansions <= 2
          /\ gate.expansions > 0 => gate.firstPass < MinWords(gate.kind)
          /\ gate.pc = "expanding" => gate.wordCount < MinWords(gate.kind)
          /\ (gate.pc = "returned" /\ gate.expansions > 0) =>
                (gate.wordCount >= MinWords(gate.kind) \/ gate.expansions = 2))
    /\ [][\A words \in GateWordCounts(gate.kind) \cup {gate.wordCount} :
            ExpansionReturns(words) =>
                /\ gate'.wordCount = words
                /\ IF words >= MinWords(gate.kind) \/ gate.expansions = 2
                   THEN gate'.pc = "returned" /\ gate'.expansions = gate.expansions
                   ELSE gate'.pc = "expanding" /\ gate'.expansions = gate.expansions + 1]_vars
    /\ (gate.pc = "expanding") ~> (gate.pc \in {"returned", "thrown"})

\* a script that is still under length after its second expansion is returned
C22_Witness ==
    /\ gate.pc = "returned" /\ gate.kind = "podcast"
    /\ gate.expansions = 2 /\ gate.wordCount = 999 /\ gate.firstPass = 999

\* C23: an expansion request goes through the content source adapter: it carries the
\* adapter's request deadline, and a transient failure of it (rate limit, timeout,
\* transient network error) ends the gate only after the adapter's 3 retries.
C23_ExpansionThroughAdapter ==
    /\ [](gate.pc = "expanding" => gate.deadline = Milliseconds(120000))
    /\ [][\A error \in DirectRequestErrors :
            (ExpansionFails(error) /\ Transient(Reclassify(error))) =>
                (gate'.pc = "thrown" => gate.call.retries = 3)]_vars

\* C24: a breakdown response without a lessons array is rejected: no Lesson row is
\* created, the Topic is marked failed and the error text is recorded in last_error.
C24_MissingArrayRejected ==
    [][\A t \in Slots : BreakdownStep(t, Breakdown(NULL)) =>
            /\ lessons' = lessons
            /\ Len(lessons') = 0
            /\ topic.exists =>
                /\ topic'.status = "failed"
                /\ topic'.last_error = Message("Invalid response: missing lessons array")
                /\ topic'.lesson_count = topic.lesson_count]_vars

C24_Witness ==
    /\ topic.exists /\ topic.status = "failed"
    /\ topic.last_error = Message("Invalid response: missing lessons array")
    /\ Len(lessons) = 0 /\ topic.lesson_count = 0
    /\ \A t \in Slots : tasks[t].pc = "idle"

\* C25: when a breakdown fails (the call throws, the text does not parse, the lessons
\* array is missing, or an INSERT fails), the Topic is marked failed with the error in
\* last_error, a generation_error event is published, and the generate request ends
\* without scheduling a generate-all pass.
C25_BreakdownFailureRecorded ==
    [][\A t \in Slots : \A response \in Rejected \cup WellNumbered :
        (/\ BreakdownStep(t, response)
         /\ response \in Rejected \/ (~topic.exists /\ Len(response.lessons.items) > 0)) =>
            /\ topic.exists => (topic'.status = "failed" /\ topic'.last_error # NULL)
            /\ Len(published') = 1
            /\ published'[1].type = "generation_error"
            /\ published'[1].error # NULL
            /\ topic.exists => published'[1].error = topic'.last_error
            /\ tasks'[t] = IdleTask
            /\ \A u \in Slots \ {t} : tasks'[u] = tasks[u]
            /\ lessons' = lessons]_vars

C25_Witness ==
    /\ topic.exists /\ topic.status = "failed"
    /\ topic.last_error = Message("openai error")
    /\ Len(lessons) = 0
    /\ Len(published) = 1 /\ published[1].type = "generation_error"
    /\ \A t \in Slots : tasks[t].pc = "idle"

C28_LessonNumbersUnique ==
    \A j, k \in DOMAIN lessons : j # k =>
        /\ lessons[j].lesson_number # lessons[k].lesson_number
        /\ lessons[j].file_path # NULL => lessons[j].file_path # lessons[k].file_path
        /\ lessons[j].podcast_file_path # NULL =>
                lessons[j].podcast_file_path # lessons[k].podcast_file_path

\* C26: when no credential is configured, a breakdown fails before any
\* completion-service call and leaves the Topic's status, last_error and lessons as
\* they were, and generate and retry requests are answered with the configuration error
\* without starting a pass or changing any state.
C26_NoCredentialFailsFast ==
    /\ [](~apiKeyConfigured =>
            /\ GenerateRefusal = ConfigurationError
            /\ RetryRefusal = ConfigurationError
            /\ \A t \in Slots : ~ENABLED RequestGenerate(t) /\ ~ENABLED RequestRetry(t)
            /\ \A t \in Slots : tasks[t].pc = "idle"
            /\ adapter.requests = 0)
    /\ [][(~apiKeyConfigured /\ (RefuseGenerate \/ RefuseRetry \/ BreakdownWithoutCredential)) =>
            /\ UNCHANGED <<topic, lessons, files, tasks, published, adapter>>
            /\ refused'.route \in {"generate", "retry"} => refused'.status = 400
            /\ (refused'.route = "breakdownTopic" /\ topic.exists) =>
                    refused'.error = ConfigurationError.error
            /\ refused'.route \in {"generate", "retry"} =>
                    refused'.error = ConfigurationError.error]_vars

\* a retry request for a failed topic with a retryable lesson is turned away
C26_Witness ==
    /\ ~apiKeyConfigured
    /\ refused # NULL /\ refused.route = "retry" /\ refused.error = ConfigurationError.error
    /\ topic.exists /\ topic.status = "failed"
    /\ RetryableCount(lessons) > 0

\* C29: the status query returns total = the number of Lesson rows, completed and
\* failed = the number of rows in that status, current = the number of the
\* lowest-numbered lesson in generating (none if there is none), and step = breakdown
\* without lessons, complete when all lessons are completed, podcast when the
\* generating lesson has a recorded body path, and content otherwise.
C29_StatusQuery ==
    topic.exists =>
        LET status == GetGenerationStatus(topic, lessons)
            rows == DOMAIN lessons
            generating == {k \in rows : lessons[k].status = "generating"}
            \* the lowest-numbered generating lesson (the earlier row of two that
            \* carry the same number)
            lowest == {k \in generating :
                        \A j \in generating :
                            \/ lessons[k].lesson_number < lessons[j].lesson_number
                            \/ /\ lessons[k].lesson_number = lessons[j].lesson_number
                               /\ k <= j}
        IN /\ status.total = Cardinality(rows)
           /\ status.completed = Cardinality({k \in rows : lessons[k].status = "completed"})
           /\ status.failed = Cardinality({k \in rows : lessons[k].status = "failed"})
           /\ generating = {} => status.current = NULL
           /\ \A k \in lowest : status.current = Number(lessons[k].lesson_number)
           /\ status.step =
                IF rows = {} THEN "breakdown"
                ELSE IF \A k \in rows : lessons[k].status = "completed" THEN "complete"
                ELSE IF \E k \in lowest : lessons[k].file_path # NULL THEN "podcast"
                ELSE "content"

\* C30: a generate request for a standalone lesson that is generating or completed is
\* answered with an error status and starts no generation.
C30_StandaloneGenerateRejected ==
    [][(GenerateStandaloneLesson /\ standalone.exists
            /\ standalone.status \in {"generating", "completed"}) =>
            /\ refused' # NULL
            /\ refused'.status >= 400
            /\ standalone' = standalone]_vars

\* C31: on the page, whenever the topic is generating and the event stream is not
\* connected, the status endpoint is polled every 3 seconds and the polled state
\* replaces the displayed lesson state; once the stream is connected the polling stops.
C31_PollingFallback ==
    /\ [](page.mounted /\ Generating(page) /\ page.source # "open"
            => page.polling = Milliseconds(3000))
    /\ [][Poll => page'.topic.lessons = page.api.lessons]_vars
    /\ [](page.source = "open" => page.polling = NULL)

C33_TemplateSubstitution ==
    fn.op = "replaceTemplateVariables" =>
        /\ fn.result = SubstitutedFrom(fn.template, 1, fn.variables)
        /\ fn.template = ExampleTemplate /\ fn.variables = ExampleVariables
            => fn.result = ExampleResult

\* C39: replaceTemplateVariables inserts every value verbatim: text of the form {{k}}
\* inside a substituted value is never itself substituted, so the result does not
\* depend on the order in which the variables are listed.
C39_ValuesVerbatim ==
    /\ [](fn.op = "replaceTemplateVariables" =>
            \A k \in DOMAIN fn.variables :
                fn.template = Placeholder(fn.variables[k].key)
                    => fn.result = fn.variables[k].value)
    /\ [][ApplyReordered => fn'.result = fn.result]_vars

\* C34: while the process keeps running and every completion-service call returns or
\* fails, every accepted generate request eventually leaves the topic completed or
\* failed: no topic stays generating forever, whatever lesson array the breakdown
\* returned.
C34_GenerationEnds ==
    (topic.exists /\ topic.status = "generating")
        ~> (~topic.exists \/ topic.status \in {"completed", "failed"})

\* ------------------------------------------------- the events of an attempt and of a pass
EventTypes(events) == [k \in DOMAIN events |-> events[k].type]
LessonEvent(e, type, step, number) ==
    e.type = type /\ e.step = step /\ e.lessonNumber = number
FinalEventTypes == {"generation_complete", "generation_error"}
\* what a pass publishes when it goes on after a lesson: the start of the next attempt,
\* or the one final event when the loop is over
AfterLesson(t, events) ==
    /\ Len(events) = 1
    /\ IF tasks'[t].pc = "idle"
       THEN events[1].type \in FinalEventTypes
       ELSE /\ Starts(t, Current(t)')
            /\ LessonEvent(events[1], "lesson_start", "content",
                           tasks'[t].lessons[tasks'[t].i].lesson_number)
\* pass t gets past its preconditions in this step
EntersLoop(t) ==
    /\ tasks[t].pc = "scheduled"
    /\ tasks'[t].pc # "scheduled"
    /\ topic.exists
    /\ IF tasks[t].kind = "retry" THEN Len(RetrySelection(lessons)) > 0
       ELSE Len(lessons) > 0

\* C35: the events of a generate-lesson attempt are lesson_start(content) followed by
\* lesson_error, or by lesson_content_complete, lesson_start(podcast) and then either
\* lesson_error or lesson_podcast_complete, lesson_complete; a pass publishes exactly
\* one of generation_complete / generation_error, after all its lesson events.
C35_EventSequences ==
    [][\A t \in Slots :
        LET n == tasks[t].lessons[tasks[t].i].lesson_number
            es == published'
        IN /\ EntersLoop(t) => AfterLesson(t, es)
           /\ (tasks[t].pc = "content" /\ ~Leaves(t) /\ tasks'[t] # tasks[t]) =>
                 /\ tasks'[t].pc = "podcast"
                 /\ Len(es) = 2
                 /\ LessonEvent(es[1], "lesson_content_complete", "none", n)
                 /\ LessonEvent(es[2], "lesson_start", "podcast", n)
           /\ (tasks[t].pc = "content" /\ Leaves(t)) =>
                 /\ Len(es) = 2
                 /\ es[1].type = "lesson_error" /\ es[1].lessonNumber = n
                 /\ AfterLesson(t, SubSeq(es, 2, 2))
           /\ (tasks[t].pc = "podcast" /\ tasks'[t] # tasks[t]) =>
                 /\ Leaves(t)
                 /\ \/ /\ Len(es) = 2
                       /\ es[1].type = "lesson_error" /\ es[1].lessonNumber = n
                       /\ AfterLesson(t, SubSeq(es, 2, 2))
                    \/ /\ Len(es) = 3
                       /\ LessonEvent(es[1], "lesson_podcast_complete", "none", n)
                       /\ LessonEvent(es[2], "lesson_complete", "none", n)
                       /\ AfterLesson(t, SubSeq(es, 3, 3))]_vars

\* a pass ends with its last lesson completed: podcast_complete, lesson_complete, and
\* the final event after them
C35_Witness ==
    /\ EventTypes(published) =
          <<"lesson_podcast_complete", "lesson_complete", "generation_complete">>
    /\ \A t \in Slots : tasks[t].pc = "idle"

\* C36: while one lesson is being generated, the status query reports the step of the
\* running attempt: content while the attempt awaits the lesson body, podcast while it
\* awaits the script, for a first attempt and for a retry alike.
C36_StatusStepOfAttempt ==
    \A t \in Slots :
        (/\ InAttempt(t)
         /\ topic.exists
         /\ \A u \in Slots \ {t} : ~InAttempt(u)
         /\ Current(t) \in DOMAIN lessons
         /\ lessons[Current(t)].status = "generating")
        => GetGenerationStatus(topic, lessons).step = tasks[t].pc

\* C37: a lesson_error event carries step content when the attempt failed while it was
\* awaiting or writing the lesson body, and step podcast when it failed after the body
\* was written and recorded, for a first attempt and for a retry alike.
C37_ErrorStepOfAttempt ==
    [][\A t \in Slots :
          (InAttempt(t) /\ Leaves(t) /\ published'[1].type = "lesson_error")
          => published'[1].step = tasks[t].pc]_vars

\* C38: opening a stream for a topic writes only to the channel it connects: every
\* other channel, of the same topic or of another, receives nothing in that step.
C38_OnlyNewChannel ==
    [][\A topicId \in TopicIds :
          OpenStream(topicId) =>
              \A id \in 1..MaxCalls : id # calls + 1 => received'[id] = received[id]]_vars

====
